---------------------------- MODULE Spec2Model ----------------------------
(***************************************************************************)
(* Model of the EGASA data-mart ETL: the schema validator and atomic CSV   *)
(* writer (etl/utils_io.py, pandera/__init__.py, etl/schemas.py), the      *)
(* orchestrator (etl/run_etl.py), the 15-minute partition merge and the    *)
(* deduplication steps of the source normalizers (etl/pipelines/*.py).     *)
(***************************************************************************)
EXTENDS Integers, Sequences, FiniteSets, TLC

VARIABLES
    \* ---- validator and atomic writer (etl/utils_io.py) ----
    RUN_CONTEXT,   \* _RUN_CONTEXT: [run_id, strict]
    wfiles,        \* destination files: path -> content ("absent" or a CSV)
    wtmps,         \* temporary files on disk: set of [dir, stem, content]
    wreports,      \* validation reports on disk: set of [name, payload]
    wpc,           \* position of the validate_and_write call
    wjob,          \* the call in progress: arguments and locals
    \* ---- orchestrator (etl/run_etl.py) ----
    CONFIG,        \* the "required" flag of each configured source
    landing,       \* data_landing: source -> state of its file
    metafault,     \* whether write_metadata fails on this run's tables
    rpc,           \* position of main() in its try block
    rcalls,        \* normalizers invoked so far, in order
    rdone,         \* normalizers that returned
    files_read,    \* main's files_read: the files the normalizers read
    datasets,      \* main's datasets: table -> (frame, key columns)
    tables_rows,   \* main's tables_rows: table -> row count
    mart,          \* files this run has written in data_mart
    metadata,      \* data_mart/metadata.json
    rlog0,         \* etl_runs.jsonl as it was when main() started
    rlog,          \* etl_runs.jsonl
    rerror,        \* the exception that reached main's except clause
    rhint,         \* whether the remediation hint was logged
    \* ---- 15-minute partition merge (run_produccion) ----
    mdisk,         \* generacion_15min_<periodo>.csv in data_mart
    marchivo,      \* df_all: the rows parsed from one 15-minute file
    mprev,         \* prev: the partition read back before the merge
    mpart,         \* df_part: the partition _process_15min returned
    mpc,           \* "ready", "merged" or "skipped"
    \* ---- deduplication inside the normalizers ----
    nsrc,          \* rows of a source, in source order
    nout,          \* the table a normalizer produced from them
    \* ---- header detection (detect_header_row) ----
    hgrid,         \* df_preview: rows of cells
    hkeywords,     \* the keywords argument
    hexpected,     \* the expected_columns argument
    hrow,          \* the value returned
    \* ---- entity reconciliation (map_central_id) ----
    clabels,       \* df[source_col]: the raw labels, one per row
    cref,          \* centrales_df: rows (central_nombre_norm, central_id)
    ccache,        \* the cache of _match
    cids,          \* df["central_id"] of the rows mapped so far
    \* ---- functions studied on their own ----
    fargs,         \* the arguments of the call
    fret,          \* the value returned, once the call has returned
    \* ---- configuration and directories (etl/config.py) ----
    gyml,          \* the file BASE_DIR / "config.yml"
    gheap,         \* the "paths" dicts: DEFAULT_CONFIG["paths"] and a merged copy
    gconfig,       \* which of the two dicts CONFIG["paths"] is
    PATHS,         \* config.PATHS (DATA_LANDING, DATA_MART, ... are its entries)
    pipeline_DATA_MART,    \* DATA_MART as bound in the pipeline modules
    utils_io_REPORTS_DIR,  \* REPORTS_DIR as bound in utils_io
    utils_io_LOGS_DIR,     \* LOGS_DIR as bound in utils_io
    LOG_FILE,      \* the directory of config.LOG_FILE
    gartifacts     \* artifact -> directory it was written under since the last reload

wvars == <<RUN_CONTEXT, wfiles, wtmps, wreports, wpc, wjob>>
rvars == <<CONFIG, landing, metafault, rpc, rcalls, rdone, files_read, datasets,
           tables_rows, mart,
           metadata, rlog0, rlog, rerror, rhint>>
mvars == <<mdisk, marchivo, mprev, mpart, mpc>>
nvars == <<nsrc, nout>>
hvars == <<hgrid, hkeywords, hexpected, hrow>>
cvars == <<clabels, cref, ccache, cids>>

fvars == <<fargs, fret>>
gvars == <<gyml, gheap, gconfig, PATHS, pipeline_DATA_MART,
           utils_io_REPORTS_DIR, utils_io_LOGS_DIR, LOG_FILE, gartifacts>>
xvars == <<fvars, gvars>>

vars == <<wvars, rvars, mvars, nvars, hvars, cvars, xvars>>

----------------------------------------------------------------------------
(* Bounds of the model *)

MaxRows == 2
MaxDisk == 2
MaxBatch == 2
MaxSrc == 3
MaxGridRows == 2
MaxLabels == 2
MaxPieces == 2
MaxColumns == 2
MaxSheetRows == 2
MaxSheets == 2
MaxPeriodos == 2

----------------------------------------------------------------------------
(* Cell values of a DataFrame: a number, a text, or a missing value (NaN) *)

Num(n) == [t |-> "num", n |-> n, s |-> ""]
Str(x) == [t |-> "str", n |-> 0, s |-> x]
Null == [t |-> "null", n |-> 0, s |-> ""]

\* str(n).zfill(2)
Pad2(n) == IF n < 10 THEN "0" \o ToString(n) ELSE ToString(n)

\* A pd.Timestamp cell: n orders the instants, s is Timestamp.isoformat()
Ts(y, mo, d, hh, mi) ==
    [t |-> "ts",
     n |-> ((((y - 2000) * 12 + mo) * 31 + d) * 24 + hh) * 60 + mi,
     s |-> ToString(y) \o "-" \o Pad2(mo) \o "-" \o Pad2(d) \o "T"
               \o Pad2(hh) \o ":" \o Pad2(mi) \o ":00"]

RangeOf(f) == {f[i] : i \in DOMAIN f}

\* pd.to_numeric(text, errors="coerce") on the texts of the model
ParseNum(x) ==
    CASE x = "2025" -> Num(2025)
      [] x = "202501" -> Num(202501)
      [] x = "201001" -> Num(201001)
      [] x = "1" -> Num(1)
      [] x = "01" -> Num(1)
      [] OTHER -> Null


\* Series.astype(str): the text of a cell (NaN becomes the text "nan")
AsStr(v) ==
    CASE v.t = "num" -> ToString(v.n)
      [] v.t = "str" -> v.s
      [] OTHER -> "nan"

\* str() of a float holding a whole number
FloatText(n) == ToString(n) \o ".0"

\* The dtype of a column holding numbers: int64 while every cell is an
\* integer, float64 as soon as one cell is NaN (a column of texts, or of
\* texts and numbers, is an object column and keeps each cell as it is)
IsFloat64(series) ==
    /\ \A i \in DOMAIN series : series[i].t \in {"num", "null"}
    /\ \E i \in DOMAIN series : series[i].t = "null"

\* Series.astype(str): the numbers of a float64 column read "2025.0"
SeriesAsStr(series) ==
    [i \in DOMAIN series |->
        IF IsFloat64(series) /\ series[i].t = "num"
        THEN FloatText(series[i].n)
        ELSE AsStr(series[i])]

\* pd.to_numeric(cell, errors="coerce")
to_numeric(cell) == IF cell.t = "str" THEN ParseNum(cell.s) ELSE cell

\* DataFrame.to_csv: the text written for a cell of an int64 or object
\* column (NaN is written empty)
CsvCell(v) ==
    CASE v.t = "num" -> ToString(v.n)
      [] v.t = "str" -> v.s
      [] OTHER -> ""

\* DataFrame.to_csv: the texts written for a column, by its dtype
CsvColumn(series) ==
    [i \in DOMAIN series |->
        IF IsFloat64(series) /\ series[i].t = "num"
        THEN FloatText(series[i].n)
        ELSE CsvCell(series[i])]

\* A DataFrame: its column labels in order and its rows (column -> cell)
Table(cols, rows) == [cols |-> cols, rows |-> rows]

\* df[c]: the cells of a column
Series(df, c) == [i \in DOMAIN df.rows |-> df.rows[i][c]]

\* DataFrame.to_csv(index=False): header line, then one line per row
ToCsv(df) ==
    [exists |-> TRUE, hdr |-> df.cols,
     rows |-> [i \in 1..Len(df.rows) |->
                 [j \in 1..Len(df.cols) |-> CsvColumn(Series(df, df.cols[j]))[i]]]]

\* The first k chunks of a serialization: nothing, the header, then the rows
CsvPrefix(csv, k) ==
    IF k = 0 THEN [exists |-> TRUE, hdr |-> <<>>, rows |-> <<>>]
    ELSE [exists |-> TRUE, hdr |-> csv.hdr, rows |-> SubSeq(csv.rows, 1, k - 1)]

CsvChunks(csv) == Len(csv.rows) + 1

\* A path with no file
Absent == [exists |-> FALSE, hdr |-> <<>>, rows |-> <<>>]

----------------------------------------------------------------------------
(* File names: sequences of characters *)

WINDOWS_INVALID_CHARS == {"<", ">", ":", "\"", "/", "\\", "|", "?", "*"}

RECURSIVE RStrip(_)
RStrip(name) ==
    IF name # <<>> /\ name[Len(name)] \in {" ", "."}
    THEN RStrip(SubSeq(name, 1, Len(name) - 1))
    ELSE name

sanitize_filename(name) ==
    LET cleaned == [i \in 1..Len(name) |->
                      IF name[i] \in WINDOWS_INVALID_CHARS THEN "_" ELSE name[i]]
        stripped == RStrip(cleaned)
    IN IF stripped = <<>> THEN <<"_">> ELSE stripped

\* Path.stem: the name without its last suffix
Stem(name) ==
    LET dots == {i \in 2..Len(name) : name[i] = "."}
    IN IF dots = {} \/ name[Len(name)] = "." THEN name
       ELSE SubSeq(name, 1, (CHOOSE i \in dots : \A j \in dots : j <= i) - 1)

Path(dir, name) == [dir |-> dir, name |-> name]

\* path.with_name(sanitize_filename(path.name))
SanitizedPath(path) == Path(path.dir, sanitize_filename(path.name))

----------------------------------------------------------------------------
(* pandera stub: Column, Check, DataFrameSchema.validate *)

ge(min_value) ==
    [name |-> "ge_" \o ToString(min_value), kind |-> "ge",
     lo |-> min_value, hi |-> min_value]
in_range(min_value, max_value, inclusive) ==
    [name |-> "in_range_" \o ToString(min_value) \o "_" \o ToString(max_value),
     kind |-> "in_range", lo |-> min_value, hi |-> max_value, inclusive |-> inclusive]
str_length(min_value, max_value) ==
    [name |-> "str_length_" \o ToString(min_value) \o "_" \o ToString(max_value),
     kind |-> "str_length", lo |-> min_value, hi |-> max_value]

Column(name, dtype, nullable, checks) ==
    [name |-> name, dtype |-> dtype, nullable |-> nullable, checks |-> checks]

\* Check.__call__ on one cell of the (coerced) series; a comparison with NaN
\* is False
CheckHolds(check, v) ==
    CASE check.kind = "ge" -> v.t = "num" /\ v.n >= check.lo
      [] check.kind = "in_range" ->
            /\ v.t = "num"
            /\ IF check.inclusive
               THEN v.n >= check.lo /\ v.n <= check.hi
               ELSE v.n > check.lo /\ v.n < check.hi
      [] check.kind = "str_length" ->
            Len(AsStr(v)) >= check.lo /\ Len(AsStr(v)) <= check.hi
      [] OTHER -> TRUE

\* DataFrameSchema._coerce_series: pd.to_numeric(series, errors="coerce")
\* for the numeric dtypes, series.astype(str) for the others
_coerce_series(series, dtype) ==
    IF dtype \in {"int64", "float64"}
    THEN [i \in DOMAIN series |-> to_numeric(series[i])]
    ELSE [i \in DOMAIN series |-> Str(SeriesAsStr(series)[i])]

RECURSIVE Flatten(_)
Flatten(seqs) ==
    IF seqs = <<>> THEN <<>> ELSE Head(seqs) \o Flatten(Tail(seqs))

\* One pass of the loop body of validate for a schema column: the failures
\* appended for it
ColumnFailures(col, df) ==
    IF col.name \notin RangeOf(df.cols)
    THEN <<[column |-> col.name, check |-> "required", index |-> {}]>>
    ELSE LET series == _coerce_series(Series(df, col.name), col.dtype)
             na == {i \in DOMAIN series : series[i].t = "null"}
             nonnull == IF ~col.nullable /\ na # {}
                        THEN <<[column |-> col.name, check |-> "non_null",
                                index |-> na]>>
                        ELSE <<>>
             failed(c) == {i \in DOMAIN series : ~CheckHolds(c, series[i])}
             checks == [k \in 1..Len(col.checks) |->
                          IF failed(col.checks[k]) # {}
                          THEN <<[column |-> col.name,
                                  check |-> col.checks[k].name,
                                  index |-> failed(col.checks[k])]>>
                          ELSE <<>>]
         IN nonnull \o Flatten(checks)

\* df_validated: every schema column present in df is replaced by its
\* coerced series (the schemas all set coerce=True)
Coerced(schema, df) ==
    LET dtypeOf(c) ==
            LET ks == {k \in DOMAIN schema : schema[k].name = c}
            IN IF ks = {} THEN "none" ELSE schema[CHOOSE k \in ks : TRUE].dtype
    IN Table(df.cols,
             [i \in 1..Len(df.rows) |->
                [c \in DOMAIN df.rows[i] |->
                   IF dtypeOf(c) = "none" THEN df.rows[i][c]
                   ELSE _coerce_series(Series(df, c), dtypeOf(c))[i]]])

\* DataFrameSchema.validate(df, lazy): the failures it raises SchemaErrors
\* with (none: it returns df_validated)
validate(schema, df, lazy) ==
    LET all == Flatten([k \in 1..Len(schema) |-> ColumnFailures(schema[k], df)])
    IN [failures |-> IF lazy \/ all = <<>> THEN all ELSE <<Head(all)>>,
        validated |-> Coerced(schema, df)]

\* "import pandera.errors" inside _write_validation_report: the package has
\* no errors submodule (errors is a class in pandera/__init__.py), so the
\* import raises and the except clause skips the failure cases
PanderaErrorsImports == FALSE

----------------------------------------------------------------------------
(* etl/schemas.py *)

ventas_mensual_mwh ==
    <<"v","e","n","t","a","s","_","m","e","n","s","u","a","l","_","m","w","h">>
ventas_mensual_soles ==
    <<"v","e","n","t","a","s","_","m","e","n","s","u","a","l","_","s","o","l","e","s">>
ingresos_mensual ==
    <<"i","n","g","r","e","s","o","s","_","m","e","n","s","u","a","l">>
precio_medio_mensual ==
    <<"p","r","e","c","i","o","_","m","e","d","i","o","_","m","e","n","s","u","a","l">>

SCHEMAS ==
    [d \in {ventas_mensual_mwh, ventas_mensual_soles, ingresos_mensual} |->
        IF d = ingresos_mensual
        THEN <<Column("anio", "int64", FALSE, <<>>),
               Column("mes", "int64", FALSE, <<in_range(1, 12, TRUE)>>),
               Column("cliente_o_concepto", "string", FALSE, <<>>),
               Column("soles", "float64", FALSE, <<>>)>>
        ELSE <<Column("cliente", "string", FALSE, <<>>),
               Column("periodo", "string", FALSE, <<str_length(6, 6)>>),
               Column("anio", "int64", TRUE, <<>>),
               Column("mes", "int64", TRUE, <<>>),
               Column(IF d = ventas_mensual_mwh THEN "mwh" ELSE "soles", "float64",
                      TRUE, <<ge(0)>>)>>]

NoSchema == <<>>

get_schema(dataset) ==
    IF dataset \in DOMAIN SCHEMAS THEN SCHEMAS[dataset] ELSE NoSchema

\* validate_and_write: the frame has rows and schema.validate raises
SchemaFails(dataset, df) ==
    /\ get_schema(dataset) # NoSchema
    /\ df.rows # <<>>
    /\ validate(get_schema(dataset), df, TRUE).failures # <<>>

----------------------------------------------------------------------------
(* The parts of the state a specification does not exercise *)

WIdle ==
    /\ wfiles = [p \in {} |-> 0]
    /\ wtmps = {}
    /\ wreports = {}
    /\ wpc = "off"
    /\ wjob = 0

RIdle ==
    /\ CONFIG = 0
    /\ landing = 0
    /\ metafault = FALSE
    /\ rpc = "off"
    /\ rcalls = <<>>
    /\ rdone = {}
    /\ files_read = <<>>
    /\ datasets = <<>>
    /\ tables_rows = <<>>
    /\ mart = {}
    /\ metadata = 0
    /\ rlog0 = <<>>
    /\ rlog = <<>>
    /\ rerror = ""
    /\ rhint = FALSE

MIdle ==
    /\ mdisk = 0
    /\ marchivo = <<>>
    /\ mprev = 0
    /\ mpart = 0
    /\ mpc = "off"

NIdle ==
    /\ nsrc = <<>>
    /\ nout = 0

\* an optional list argument: None, or the list given
None == [given |-> FALSE, items |-> <<>>]
Given(items) == [given |-> TRUE, items |-> items]

HIdle ==
    /\ hgrid = <<>>
    /\ hkeywords = None
    /\ hexpected = None
    /\ hrow = -1

CIdle ==
    /\ clabels = <<>>
    /\ cref = <<>>
    /\ ccache = <<>>
    /\ cids = <<>>

NotReturned == [returned |-> FALSE]

FIdle ==
    /\ fargs = <<>>
    /\ fret = NotReturned

GIdle ==
    /\ gyml = <<>>
    /\ gheap = <<>>
    /\ gconfig = ""
    /\ PATHS = <<>>
    /\ pipeline_DATA_MART = ""
    /\ utils_io_REPORTS_DIR = ""
    /\ utils_io_LOGS_DIR = ""
    /\ LOG_FILE = ""
    /\ gartifacts = <<>>

XIdle == FIdle /\ GIdle

----------------------------------------------------------------------------
(* Inputs of the validator and writer *)

VentasCols == <<"cliente", "periodo", "anio", "mes", "mwh">>
ShortCols == <<"cliente", "mwh">>

VentasRow(periodo, anio, mwh) ==
    [cliente |-> Str("A"), periodo |-> periodo, anio |-> anio,
     mes |-> Num(1), mwh |-> mwh]

VentasRows ==
    { VentasRow(Num(202501), Num(2025), Num(100)),
      VentasRow(Num(202501), Str("x"), Num(100)),
      VentasRow(Str("2025"), Num(2025), Num(100)),
      VentasRow(Num(202501), Num(2025), Num(-5)),
      VentasRow(Str("2025"), Num(2025), Str("abc")),
      VentasRow(Num(202501), Num(2025), Null) }

ShortRows == { [cliente |-> Str("A"), mwh |-> Num(100)],
               [cliente |-> Str("A"), mwh |-> Num(-5)] }

SeqsUpTo(S, n) == UNION { [1..k -> S] : k \in 0..n }

InputTables ==
    { Table(VentasCols, r) : r \in SeqsUpTo(VentasRows, MaxRows) }
    \cup { Table(ShortCols, r) : r \in SeqsUpTo(ShortRows, MaxRows) }

Datasets == {ventas_mensual_mwh, precio_medio_mensual}

DATA_MART == "data_mart"
REPORTS_DIR == "reports"
SystemTmpDir == "tmp"

DestNames == { <<"v", ".", "c">>, <<"v", ":", ".">>, <<" ", ".">> }
DestPaths == { Path(DATA_MART, n) : n \in DestNames }
DiskPaths == { SanitizedPath(p) : p \in DestPaths }

\* Contents a destination can hold before the call: nothing, or the file a
\* previous run wrote
OldContents ==
    { Absent,
      ToCsv(Table(VentasCols, <<VentasRow(Num(202412), Num(2024), Num(7))>>)) }

RunIds == {"r1"}
NoRunId == "None"
UtcNow == "utcnow"

----------------------------------------------------------------------------
(* etl/utils_io.py: set_run_context, validate_and_write, safe_write_csv,   *)
(* _atomic_write_csv, _write_validation_report                             *)

NoTable == Table(<<>>, <<>>)
NoJob ==
    [dataset |-> <<>>, df |-> NoTable, path |-> Path("", <<>>), strict |-> TRUE,
     failures |-> <<>>, toWrite |-> NoTable, old |-> Absent, written |-> 0,
     ret |-> -1]

WInit ==
    /\ RUN_CONTEXT = [run_id |-> NoRunId, strict |-> TRUE]
    /\ wfiles \in {f \in [DestPaths \cup DiskPaths -> OldContents] :
                        \A p \in DestPaths \ DiskPaths : f[p] = Absent}
    /\ wtmps = {}
    /\ wreports = {}
    /\ wpc = "idle"
    /\ wjob = NoJob

set_run_context(run_id, strict) ==
    /\ wpc = "idle"
    /\ RUN_CONTEXT' = [run_id |-> run_id, strict |-> strict]
    /\ UNCHANGED <<xvars, rvars, mvars, nvars, hvars, cvars, wfiles, wtmps, wreports, wpc, wjob>>

\* Variant: only a table without schema skips the validation
SkipsWithoutSchemaOnly(schema, df) == schema = NoSchema

\* the two early returns of validate_and_write: "if schema is None" and
\* "if df.empty"
SkipsValidation(schema, df) == schema = NoSchema \/ df.rows = <<>>

\* validate_and_write up to the outcome of schema.validate
validate_and_write(dataset, df, path) ==
    LET schema == get_schema(dataset)
        res == validate(schema, df, TRUE)
        job == [NoJob EXCEPT !.dataset = dataset, !.df = df, !.path = path,
                             !.strict = RUN_CONTEXT.strict,
                             !.old = wfiles[SanitizedPath(path)]]
    IN /\ wpc = "idle"
       /\ IF SkipsValidation(schema, df)
          THEN /\ wjob' = [job EXCEPT !.toWrite = df]
               /\ wpc' = "write"
          ELSE IF res.failures = <<>>
          THEN /\ wjob' = [job EXCEPT !.toWrite = res.validated]
               /\ wpc' = "write"
          ELSE /\ wjob' = [job EXCEPT !.failures = res.failures]
               /\ wpc' = "report"
       /\ UNCHANGED <<xvars, rvars, mvars, nvars, hvars, cvars, RUN_CONTEXT, wfiles, wtmps, wreports>>

ReportName(dataset) ==
    [run_id |-> IF RUN_CONTEXT.run_id # NoRunId THEN RUN_CONTEXT.run_id ELSE UtcNow,
     safe_dataset |-> sanitize_filename(dataset)]

ReportPayload(dataset, failures) ==
    [dataset |-> dataset,
     run_id |-> ReportName(dataset).run_id,
     error |-> "Schema validation failed",
     has_failure_cases |-> PanderaErrorsImports,
     failure_cases |-> IF PanderaErrorsImports THEN failures ELSE <<>>]

\* Variant: strict mode re-raises before the report is written
ReportAfterRaise ==
    LET name == ReportName(wjob.dataset)
    IN /\ wpc = "report"
       /\ IF wjob.strict
          THEN wpc' = "raised" /\ wjob' = wjob /\ wreports' = wreports
          ELSE /\ wpc' = "write" /\ wjob' = [wjob EXCEPT !.toWrite = wjob.df]
               /\ wreports' = {r \in wreports : r.name # name}
                      \cup {[name |-> name,
                             payload |-> ReportPayload(wjob.dataset, wjob.failures)]}
       /\ UNCHANGED <<xvars, rvars, mvars, nvars, hvars, cvars, RUN_CONTEXT, wfiles, wtmps>>

\* Variant: non-strict mode writes the coerced frame instead of df
ReportThenWriteCoerced ==
    LET name == ReportName(wjob.dataset)
    IN /\ wpc = "report"
       /\ wreports' = {r \in wreports : r.name # name}
                      \cup {[name |-> name,
                             payload |-> ReportPayload(wjob.dataset, wjob.failures)]}
       /\ IF wjob.strict
          THEN wpc' = "raised" /\ wjob' = wjob
          ELSE wpc' = "write"
               /\ wjob' = [wjob EXCEPT !.toWrite =
                                Coerced(get_schema(wjob.dataset), wjob.df)]
       /\ UNCHANGED <<xvars, rvars, mvars, nvars, hvars, cvars, RUN_CONTEXT, wfiles, wtmps>>

\* the except branch of validate_and_write: the report, then raise (strict)
\* or fall through to the write of the original df
_write_validation_report ==
    LET name == ReportName(wjob.dataset)
    IN /\ wpc = "report"
       /\ wreports' = {r \in wreports : r.name # name}
                      \cup {[name |-> name,
                             payload |-> ReportPayload(wjob.dataset, wjob.failures)]}
       /\ IF wjob.strict
          THEN wpc' = "raised" /\ wjob' = wjob
          ELSE wpc' = "write" /\ wjob' = [wjob EXCEPT !.toWrite = wjob.df]
       /\ UNCHANGED <<xvars, rvars, mvars, nvars, hvars, cvars, RUN_CONTEXT, wfiles, wtmps>>

\* Variant: df.to_csv(path) straight onto the destination
DirectTarget(path) == [kind |-> "dest", dir |-> path.dir]

\* Where df.to_csv writes: the temporary file, created with dir=path.parent
AtomicTarget(path) == [kind |-> "tmp", dir |-> path.dir]

\* tempfile.NamedTemporaryFile(delete=False, dir=..., prefix=stem_, suffix=.tmp)
CreateTmp ==
    LET spath == SanitizedPath(wjob.path)
    IN /\ wpc = "write"
       /\ wtmps' = wtmps \cup {[dir |-> AtomicTarget(spath).dir,
                                prefix |-> Stem(spath.name),
                                content |-> CsvPrefix(ToCsv(wjob.toWrite), 0)]}
       /\ wpc' = "tmp"
       /\ UNCHANGED <<xvars, rvars, mvars, nvars, hvars, cvars, RUN_CONTEXT, wfiles, wreports, wjob>>

\* df.to_csv(tmp.name): one more chunk of the serialization reaches the disk
ToCsvStep ==
    LET spath == SanitizedPath(wjob.path)
        csv == ToCsv(wjob.toWrite)
        k == wjob.written + 1
        tmp == CHOOSE t \in wtmps : t.content = CsvPrefix(csv, wjob.written)
    IN /\ wpc = "tmp"
       /\ wjob.written < CsvChunks(csv)
       /\ IF AtomicTarget(spath).kind = "tmp"
          THEN /\ wtmps' = (wtmps \ {tmp}) \cup {[tmp EXCEPT !.content = CsvPrefix(csv, k)]}
               /\ wfiles' = wfiles
          ELSE /\ wfiles' = [wfiles EXCEPT ![spath] = CsvPrefix(csv, k)]
               /\ wtmps' = wtmps
       /\ wjob' = [wjob EXCEPT !.written = k]
       /\ wpc' = IF k = CsvChunks(csv) THEN "closed" ELSE "tmp"
       /\ UNCHANGED <<xvars, rvars, mvars, nvars, hvars, cvars, RUN_CONTEXT, wreports>>

\* Variant: the lines of the file, header included
LineCount(df) == Len(df.rows) + 1

\* len(df)
RowCount(df) == Len(df.rows)

\* os.replace(temp_path, path), then safe_write_csv returns len(df)
OsReplace ==
    LET spath == SanitizedPath(wjob.path)
    IN /\ wpc = "closed"
       /\ \E tmp \in wtmps :
            /\ wfiles' = [wfiles EXCEPT ![spath] = tmp.content]
            /\ wtmps' = wtmps \ {tmp}
       /\ wjob' = [wjob EXCEPT !.ret = RowCount(wjob.toWrite)]
       /\ wpc' = "returned"
       /\ UNCHANGED <<xvars, rvars, mvars, nvars, hvars, cvars, RUN_CONTEXT, wreports>>

\* The process dies at any point of the call
Crash ==
    /\ wpc \in {"report", "write", "tmp", "closed"}
    /\ wpc' = "crashed"
    /\ UNCHANGED <<xvars, rvars, mvars, nvars, hvars, cvars, RUN_CONTEXT, wfiles, wtmps, wreports, wjob>>

WNext ==
    \/ \E r \in RunIds, st \in BOOLEAN : set_run_context(r, st)
    \/ \E d \in Datasets, df \in InputTables, p \in DestPaths :
            validate_and_write(d, df, p)
    \/ _write_validation_report
    \/ CreateTmp
    \/ ToCsvStep
    \/ OsReplace
    \/ Crash

InitWrite == WInit /\ RIdle /\ MIdle /\ NIdle /\ HIdle /\ CIdle /\ XIdle

SpecWrite == InitWrite /\ [][WNext]_vars

----------------------------------------------------------------------------
(* etl/config.py: sources and their "required" flag; etl/run_etl.py: main *)

Sources ==
    {"produccion_historica", "produccion_15min", "hidrologia_control",
     "hidrologia_represas", "facturacion", "contratos", "balance_energia"}

Unset == "unset"

\* DEFAULT_CONFIG["sources"][s].get("required")
DEFAULT_CONFIG ==
    [s \in Sources |->
        CASE s \in {"hidrologia_control", "hidrologia_represas", "facturacion"} -> "true"
          [] s \in {"contratos", "balance_energia"} -> "false"
          [] OTHER -> Unset]

\* Configurations a config.yml can produce by overriding the flags
Configs ==
    { DEFAULT_CONFIG,
      [s \in Sources |-> IF DEFAULT_CONFIG[s] = Unset THEN Unset ELSE "false"],
      [s \in Sources |-> IF DEFAULT_CONFIG[s] = Unset THEN Unset ELSE "true"],
      [s \in Sources |-> Unset] }

\* (cfg or {}).get("required", True)
RequiredOrDefault(s) == CONFIG[s] # "false"

\* State of a source's file in data_landing: no file matches the pattern; a
\* workbook that parses to rows; one that parses to no rows; one whose rows
\* violate the table's schema (in the contracts workbook: those of the BASE
\* sheet, or those of the RIESGO sheet only); one that cannot be parsed
FileStates(s) ==
    {"absent", "ok", "bad"}
    \cup (IF s = "facturacion" THEN {"empty"} ELSE {})
    \cup (IF s = "contratos" THEN {"invalid", "invalid_riesgo"} ELSE {})

Landings ==
    { l \in [Sources -> {"absent", "ok", "bad", "empty", "invalid", "invalid_riesgo"}] :
        /\ \A s \in Sources : l[s] \in FileStates(s)
        /\ Cardinality({s \in Sources : l[s] = "bad"}) <= 1 }

SourceRows(s) == IF landing[s] \in {"ok", "invalid", "invalid_riesgo"} THEN 1 ELSE 0

Order == <<"produccion", "hidrologia", "facturacion", "contratos", "balance_energia">>

\* datetime.utcnow(): the readings of the clock, all of 2026-10-31 10:43
Instant(s, us) == [s |-> s, us |-> us]

Instants == {Instant(s, us) : s \in 40..42, us \in {0, 211792}}

Before(a, b) == a.s < b.s \/ (a.s = b.s /\ a.us < b.us)

\* strftime("%Y%m%d%H%M%S")
strftime(t) == "202610311043" \o ToString(t.s)

\* str(us).zfill(6)
Pad6(us) ==
    (CASE us < 10 -> "00000" [] us < 100 -> "0000" [] us < 1000 -> "000"
       [] us < 10000 -> "00" [] us < 100000 -> "0" [] OTHER -> "")
        \o ToString(us)

\* datetime.isoformat(): the microseconds are written unless they are zero
isoformat(t) ==
    "2026-10-31T10:43:" \o ToString(t.s)
        \o (IF t.us = 0 THEN "" ELSE "." \o Pad6(t.us))

\* main() reads the clock for run_id in second 41; an earlier run did in
\* second 40
StartInstants == {t \in Instants : t.s = 41}
OldInstants == {t \in Instants : t.s = 40}

\* the readings of the clock a run with this run_id can make after its first
RunInstants(run_id) ==
    {t \in Instants : \E t0 \in Instants : strftime(t0) = run_id /\ ~Before(t, t0)}

\* A file the run found: Path.name and the fields of Path.stat() that
\* record_file_info reads.  The names are written here without accents.
File(name) == [name |-> name, exists |-> TRUE, st_mtime |-> 1700000000, st_size |-> 1024]

\* ensure_centrales_reference(): DATA_REFERENCE / "centrales_egasa.csv"
ref_path == File("centrales_egasa.csv")

LandingFile(s) ==
    File(CASE s = "produccion_historica" -> "PRODUCCION EGASA DESDE 2010.xlsx"
           [] s = "produccion_15min" -> "PRODUCCION DE ENERGIA 2025-01.xlsx"
           [] s = "hidrologia_control" -> "Control Hidrologico.xlsx"
           [] s = "hidrologia_represas" -> "BDREPRESAS.xlsx"
           [] s = "facturacion" -> "Facturacion 2025.xlsx"
           [] s = "contratos" -> "Revision de Volumen Optimo.xlsx"
           [] OTHER -> "balance 2025.xlsx")

\* utils_io.record_file_info: (name, mtime, size) of the files that exist,
\* as write_metadata lists them
record_file_info(files) ==
    LET found == SelectSeq(files, LAMBDA f : f.exists)
    IN  [i \in DOMAIN found |->
            [nombre |-> found[i].name, modified_time |-> found[i].st_mtime,
             size |-> found[i].st_size]]

\* The frame of a table: n rows like the given one
Frame(cols, row, n) == Table(cols, [i \in 1..n |-> row])

\* an entry of a normalizer's datasets: (df, key_columns)
Dataset(df, keys) == [df |-> df, keys |-> keys]

\* What _parse_sales returns for a workbook with one client and one month
ParsedSales(value_name) ==
    Table(<<"cliente", "periodo", value_name>>,
          <<[c \in {"cliente", "periodo", value_name} |->
               CASE c = "cliente" -> Str("ABC")
                 [] c = "periodo" -> Str("202501")
                 [] OTHER -> Num(10)]>>)

\* _process_historico of a workbook with one reading, or the frame without
\* rows run_produccion starts from
historico_df(n) ==
    Frame(<<"central_id", "central", "anio", "mes", "periodo", "energia_mwh">>,
          [central_id |-> Str("CH1"), central |-> Str("CHARCANI I"),
           anio |-> Num(2010), mes |-> Num(1), periodo |-> Str("201001"),
           energia_mwh |-> Num(1)], n)

\* the merged partition of January 2025: one reading of one unit
merged15 ==
    Frame(<<"fecha_hora", "central", "central_raw", "unidad", "energia_mwh",
            "central_id", "periodo">>,
          [fecha_hora |-> Ts(2025, 1, 1, 0, 0), central |-> Str("CHARCANI I"),
           central_raw |-> Str("CHARCANI I | G1"), unidad |-> Str("G1"),
           energia_mwh |-> Num(1), central_id |-> Str("CH1"),
           periodo |-> Str("202501")], 1)

\* run_hidrologia: the monthly frames get their column periodo only when
\* they have rows; _procesar_control writes the station "Aguada Blanca" in
\* every row of the CAUDAL sheet
volumen_df(n) ==
    IF n = 0
    THEN Table(<<"reservorio", "anio", "mes", "volumen_000m3">>, <<>>)
    ELSE Frame(<<"reservorio", "anio", "mes", "volumen_000m3", "periodo">>,
               [reservorio |-> Str("AB"), anio |-> Num(2010), mes |-> Str("01"),
                volumen_000m3 |-> Num(1), periodo |-> Str("201001")], n)

caudal_df(n) ==
    IF n = 0
    THEN Table(<<"estacion", "anio", "mes", "caudal_m3s">>, <<>>)
    ELSE Frame(<<"estacion", "anio", "mes", "caudal_m3s", "periodo">>,
               [estacion |-> Str("Aguada Blanca"), anio |-> Num(2010), mes |-> Str("01"),
                caudal_m3s |-> Num(1), periodo |-> Str("201001")], n)

represas_df(n) ==
    IF n = 0
    THEN Table(<<"fecha", "reservorio">>, <<>>)
    ELSE Frame(<<"fecha", "reservorio", "volumen_actual">>,
               [fecha |-> Ts(2025, 12, 11, 0, 0), reservorio |-> Str("AGUADA BLANCA"),
                volumen_actual |-> Num(1)], n)

\* run_facturacion: the sales frames are what _parse_sales returned
ventas(value_name, n) ==
    IF n = 0 THEN Table(<<"cliente", "periodo", value_name>>, <<>>)
    ELSE ParsedSales(value_name)

ingresos(n) ==
    Frame(<<"anio", "mes", "cliente_o_concepto", "soles">>,
          [anio |-> Num(2025), mes |-> Num(1), cliente_o_concepto |-> Str("ABC"),
           soles |-> Num(10)], n)

\* soles / mwh of the merged aggregates
precio_medio(n) ==
    Frame(<<"periodo", "anio", "mes", "cliente", "precio_medio_soles_mwh">>,
          [periodo |-> Str("202501"), anio |-> Num(2025), mes |-> Num(1),
           cliente |-> Str("ABC"), precio_medio_soles_mwh |-> Num(1)], n)

\* run_contratos: the frame it starts from, or _clean_contracts of a sheet
\* with one contract; potencia_mw is below zero in a sheet that violates
\* the schema
contratos_df(n, potencia_mw) ==
    IF n = 0
    THEN Table(<<"cliente", "tipo", "fecha_inicio", "fecha_fin", "energia_mwh",
                 "precio">>, <<>>)
    ELSE Frame(<<"cliente", "tipo_contrato", "fecha_inicio", "fecha_fin",
                 "potencia_mw", "precio_hp_usd_mwh", "precio_fp_usd_mwh">>,
               [cliente |-> Str("ABC"), tipo_contrato |-> Str("PPA"),
                fecha_inicio |-> Ts(2025, 1, 1, 0, 0),
                fecha_fin |-> Ts(2025, 12, 31, 0, 0),
                potencia_mw |-> Num(potencia_mw),
                precio_hp_usd_mwh |-> Num(50), precio_fp_usd_mwh |-> Num(40)], n)

perfil_df(n) ==
    Frame(<<"periodo", "fecha_mes", "concepto", "energia_mwh", "energia_gwh">>,
          [periodo |-> Str("202501"), fecha_mes |-> Ts(2025, 1, 1, 0, 0),
           concepto |-> Str("PERDIDAS"), energia_mwh |-> Num(1000),
           energia_gwh |-> Num(1)], n)

r_df(n) ==
    Frame(<<"periodo", "fecha_mes", "segmento", "energia_mwh">>,
          [periodo |-> Str("202501"), fecha_mes |-> Ts(2025, 1, 1, 0, 0),
           segmento |-> Str("COES"), energia_mwh |-> Num(1)], n)

\* etl_runs.jsonl before the run: empty, or the line of an earlier run
OldLogs ==
    { <<>>,
      <<[run_id |-> strftime(Instant(40, 0)), status |-> "failed", tables |-> <<>>,
         has_error |-> TRUE, error |-> "x"]>> }

\* metadata.json before the run: absent, or the sidecar of an earlier run
NoMetadata ==
    [exists |-> FALSE, fecha_ejecucion |-> "", archivos_leidos |-> <<>>,
     datasets |-> <<>>]

OldMetadata ==
    { NoMetadata,
      [exists |-> TRUE, fecha_ejecucion |-> isoformat(Instant(40, 211792)),
       archivos_leidos |-> <<>>,
       datasets |-> [t \in {"generacion_mensual", "contratos_base"} |->
                        [filas |-> 7, alertas |-> <<>>]]] }

RInit ==
    /\ RUN_CONTEXT \in [run_id : {strftime(t) : t \in StartInstants}, strict : BOOLEAN]
    /\ CONFIG \in Configs
    /\ landing \in Landings
    /\ metafault \in {f \in BOOLEAN : f => \A s \in Sources : landing[s] # "bad"}
    /\ rpc = "produccion"
    /\ rcalls = <<>>
    /\ rdone = {}
    /\ files_read = <<>>
    /\ datasets = <<>>
    /\ tables_rows = <<>>
    /\ mart = {}
    /\ metadata \in OldMetadata
    /\ rlog0 \in OldLogs
    /\ rlog = rlog0
    /\ rerror = ""
    /\ rhint = FALSE

\* dict.update
Update(d, e) == [k \in DOMAIN d \cup DOMAIN e |-> IF k \in DOMAIN e THEN e[k] ELSE d[k]]

\* A normalizer returned the files it read and its datasets, after writing
\* `files`: main records them and moves on
Returned(name, read, returned, files, next) ==
    /\ rcalls' = Append(rcalls, name)
    /\ rdone' = rdone \cup {name}
    /\ files_read' = files_read \o read
    /\ datasets' = Update(datasets, returned)
    /\ tables_rows' = Update(tables_rows,
                             [k \in DOMAIN returned |-> Len(returned[k].df.rows)])
    /\ mart' = mart \cup files
    /\ rpc' = next
    /\ UNCHANGED <<metadata, rerror, rlog, rhint>>

\* A normalizer raised after writing `files`: control passes to except
Raised(name, files, error) ==
    /\ rcalls' = Append(rcalls, name)
    /\ mart' = mart \cup files
    /\ rerror' = error
    /\ rpc' = "except"
    /\ UNCHANGED <<rdone, files_read, datasets, tables_rows, metadata, rlog, rhint>>

RFrame == UNCHANGED <<xvars, wvars, mvars, nvars, hvars, cvars, CONFIG, landing, metafault, rlog0>>

\* the file of a source when it was found and read
Read(s) == IF landing[s] = "absent" THEN <<>> ELSE <<LandingFile(s)>>

run_produccion ==
    LET hist == landing["produccion_historica"]
        q15 == landing["produccion_15min"]
        mensual == "generacion_mensual" :>
                       Dataset(historico_df(SourceRows("produccion_historica")),
                               <<"central_id", "anio", "mes", "periodo">>)
        parts == IF q15 = "ok"
                 THEN "generacion_15min_202501" :>
                          Dataset(merged15, <<"fecha_hora", "central_id", "unidad">>)
                 ELSE <<>>
    IN /\ rpc = "produccion"
       /\ IF hist = "bad"
          THEN Raised("produccion", {}, "historico")
          ELSE IF q15 = "bad"
          THEN Raised("produccion", {"generacion_mensual.csv"}, "15min")
          ELSE Returned("produccion",
                        <<ref_path>> \o Read("produccion_historica")
                            \o Read("produccion_15min"),
                        Update(mensual, parts),
                        {"generacion_mensual.csv"}
                            \cup {"generacion_15min_202501.csv" : x \in DOMAIN parts},
                        "hidrologia")
       /\ RFrame

\* run_hidrologia never consults the "required" flag of its sources
run_hidrologia ==
    LET ctl == landing["hidrologia_control"]
        rep == landing["hidrologia_represas"]
        mensual == {"hidro_volumen_mensual.csv", "hidro_caudal_mensual.csv"}
    IN /\ rpc = "hidrologia"
       /\ IF ctl = "bad"
          THEN Raised("hidrologia", {}, "control")
          ELSE IF rep = "bad"
          THEN Raised("hidrologia", mensual, "represas")
          ELSE Returned("hidrologia",
                        Read("hidrologia_control") \o Read("hidrologia_represas"),
                        [hidro_volumen_mensual |->
                             Dataset(volumen_df(SourceRows("hidrologia_control")),
                                     <<"reservorio", "periodo">>),
                         hidro_caudal_mensual |->
                             Dataset(caudal_df(SourceRows("hidrologia_control")),
                                     <<"estacion", "periodo">>),
                         represas_diario |->
                             Dataset(represas_df(SourceRows("hidrologia_represas")),
                                     <<"fecha", "reservorio">>)],
                        mensual \cup {"represas_diario.csv"},
                        "facturacion")
       /\ RFrame

run_facturacion ==
    LET f == landing["facturacion"]
        n == SourceRows("facturacion")
        sales == ventas("mwh", n)
        invalid == /\ sales.rows # <<>>
                   /\ validate(get_schema(ventas_mensual_mwh), sales, TRUE).failures # <<>>
    IN /\ rpc = "facturacion"
       /\ IF f = "bad"
          THEN Raised("facturacion", {}, "ValueError")
          ELSE IF f = "absent" /\ RequiredOrDefault("facturacion")
          THEN Raised("facturacion", {}, "FileNotFoundError")
          ELSE IF invalid /\ RUN_CONTEXT.strict
          THEN Raised("facturacion", {}, "Schema validation failed")
          ELSE Returned("facturacion",
                        Read("facturacion"),
                        [ventas_mensual_mwh |->
                             Dataset(sales, <<"cliente", "periodo">>),
                         ventas_mensual_soles |->
                             Dataset(ventas("soles", n), <<"cliente", "periodo">>),
                         ingresos_mensual |->
                             Dataset(ingresos(n), <<"anio", "mes", "cliente_o_concepto">>),
                         precio_medio_mensual |->
                             Dataset(precio_medio(n), <<"periodo", "cliente">>)],
                        {"ventas_mensual_mwh.csv", "ventas_mensual_soles.csv",
                         "ingresos_mensual.csv", "precio_medio_mensual.csv"},
                        "contratos")
       /\ RFrame

\* the datasets of run_contratos: the BASE and the RIESGO frame
contratos_datasets(c) ==
    [contratos_base |->
         Dataset(contratos_df(IF c = "absent" THEN 0 ELSE 1,
                              IF c = "invalid" THEN 0 - 1 ELSE 10),
                 <<"cliente", "fecha_inicio">>),
     contratos_riesgo |->
         Dataset(contratos_df(IF c = "absent" THEN 0 ELSE 1,
                              IF c \in {"invalid", "invalid_riesgo"} THEN 0 - 1 ELSE 10),
                 <<"cliente", "fecha_inicio">>)]

\* Variant: an optional contratos source without file writes nothing
run_contratos_skipping ==
    LET c == landing["contratos"]
    IN /\ rpc = "contratos"
       /\ IF c = "bad"
          THEN Raised("contratos", {}, "ValueError")
          ELSE IF c = "absent" /\ RequiredOrDefault("contratos")
          THEN Raised("contratos", {}, "FileNotFoundError")
          ELSE IF c = "invalid" /\ RUN_CONTEXT.strict
          THEN Raised("contratos", {}, "Schema validation failed")
          ELSE IF c = "invalid_riesgo" /\ RUN_CONTEXT.strict
          THEN Raised("contratos", {"contratos_base.csv"}, "Schema validation failed")
          ELSE IF c = "absent"
          THEN Returned("contratos", <<>>, <<>>, {}, "balance_energia")
          ELSE Returned("contratos", Read("contratos"), contratos_datasets(c),
                        {"contratos_base.csv", "contratos_riesgo.csv"},
                        "balance_energia")
       /\ RFrame

\* run_contratos validates and writes contratos_base, then contratos_riesgo:
\* in strict mode a RIESGO sheet that violates its schema raises after
\* contratos_base.csv was written
run_contratos ==
    LET c == landing["contratos"]
    IN /\ rpc = "contratos"
       /\ IF c = "bad"
          THEN Raised("contratos", {}, "ValueError")
          ELSE IF c = "absent" /\ RequiredOrDefault("contratos")
          THEN Raised("contratos", {}, "FileNotFoundError")
          ELSE IF c = "invalid" /\ RUN_CONTEXT.strict
          THEN Raised("contratos", {}, "Schema validation failed")
          ELSE IF c = "invalid_riesgo" /\ RUN_CONTEXT.strict
          THEN Raised("contratos", {"contratos_base.csv"}, "Schema validation failed")
          ELSE Returned("contratos", Read("contratos"), contratos_datasets(c),
                        {"contratos_base.csv", "contratos_riesgo.csv"},
                        "balance_energia")
       /\ RFrame

\* run_balance_energia never consults the "required" flag of its source
run_balance_energia ==
    LET b == landing["balance_energia"]
    IN /\ rpc = "balance_energia"
       /\ IF b = "bad"
          THEN Raised("balance_energia", {}, "Perfil")
          ELSE Returned("balance_energia",
                        Read("balance_energia"),
                        [balance_perfil_mensual |->
                             Dataset(perfil_df(SourceRows("balance_energia")),
                                     <<"periodo", "concepto">>),
                         balance_r_mensual |->
                             Dataset(r_df(SourceRows("balance_energia")),
                                     <<"periodo", "segmento">>)],
                        {"balance_perfil_mensual.csv", "balance_r_mensual.csv"},
                        "write_metadata")
       /\ RFrame

\* Variant: the log is opened with "w" and loses its earlier lines
RewriteLog(log, run_id, status, tables, error) ==
    <<[run_id |-> run_id, status |-> status, tables |-> tables,
       has_error |-> error # "", error |-> error]>>

\* record_etl_run: one line appended to etl_runs.jsonl
record_etl_run(log, run_id, status, tables, error) ==
    Append(log, [run_id |-> run_id, status |-> status, tables |-> tables,
                 has_error |-> error # "", error |-> error])

----------------------------------------------------------------------------
(* pandas operations on a frame, a sequence of rows *)

\* Code-point order of the strings the model sorts
StrOrder ==
    <<"1", "201001", "201101", "202501", "202502", "CH1", "CH5", "CHARCANI I",
      "CHARCANI V", "COES", "Charcani I", "G1", "G2", "PERDIDAS", "Perdidas",
      "SAN GABAN", "TOTAL", "VENTA EN COES">>

StrRank(x) == CHOOSE i \in DOMAIN StrOrder : StrOrder[i] = x

\* Order of two rows by the ranks of their sort columns, first column first
LexLess(a, b) ==
    \E k \in DOMAIN a : a[k] < b[k] /\ \A j \in 1..(k - 1) : a[j] = b[j]

\* DataFrame.sort_values on several columns: by[i] holds the ranks of row
\* i's sort columns; rows with equal keys keep their relative order
sort_values(rows, by) ==
    LET pos(i) == 1 + Cardinality({ j \in DOMAIN rows :
                         \/ LexLess(by[j], by[i])
                         \/ (by[j] = by[i] /\ j < i) })
    IN  [ k \in DOMAIN rows |-> rows[CHOOSE i \in DOMAIN rows : pos(i) = k] ]

\* DataFrame.drop_duplicates(subset, keep): subset[i] holds row i's values
\* of the subset columns; keep is "first" (the default) or "last"
drop_duplicates(rows, subset, keep) ==
    LET dup(i) == IF keep = "first"
                  THEN \E j \in 1..(i - 1) : subset[j] = subset[i]
                  ELSE \E j \in (i + 1)..Len(rows) : subset[j] = subset[i]
        kept == { i \in DOMAIN rows : ~dup(i) }
        nth(k) == CHOOSE i \in kept : Cardinality({ j \in kept : j < i }) = k - 1
    IN  [ k \in 1..Cardinality(kept) |-> rows[nth(k)] ]

\* str.upper on the labels of the model
Upper(label) ==
    CASE label = "Charcani I" -> "CHARCANI I"
      [] label = "Perdidas" -> "PERDIDAS"
      [] label = "Coes" -> "COES"
      [] OTHER -> label

\* normalize_text: on these labels (ASCII letters, single spaces) only the
\* upper-casing changes anything
normalize_text(value) == Upper(value)

\* centrales_map built from CENTRALES_DEFAULT
centrales_map == ("CHARCANI I" :> "CH1") @@ ("CHARCANI V" :> "CH5")

\* the central_id of a label without a match
NoneId == "None"

\* map_central_id._match on the labels of the model: a direct match, or
\* None for a label that has no reference name within the cutoff
map_central_id(name) ==
    IF normalize_text(name) \in DOMAIN centrales_map
    THEN centrales_map[normalize_text(name)]
    ELSE NoneId

\* _normalize_central_label: upper-case, then the CHARCANI pattern
normalize_central_label(label) == Upper(label)

----------------------------------------------------------------------------
(* The 15-minute partition merge of run_produccion *)

Keys15 ==
    { <<1, "CHARCANI I", "G1">>, <<1, "CHARCANI I", "1">>,
      <<2, "CHARCANI I", "G1">>, <<1, "CHARCANI V", "G1">> }

Energies == {1, 2}

\* a row of the frame of one data column: central_raw is the header text
\* f"{central_label} | {unidad_label}"
Row15(fecha_hora, central_label, unidad, energia_mwh) ==
    [ fecha_hora |-> fecha_hora,
      central |-> normalize_central_label(central_label),
      central_raw |-> central_label \o " | " \o unidad,
      unidad |-> Str(unidad),
      energia_mwh |-> energia_mwh,
      central_id |-> map_central_id(normalize_central_label(central_label)) ]

Rows15 == { Row15(k[1], k[2], k[3], e) : k \in Keys15, e \in Energies }

Subset15(r) == <<r.fecha_hora, r.central_id, r.unidad>>

\* the natural key of a row as the partition file spells it
KeyText(r) == <<r.fecha_hora, r.central_id, CsvCell(r.unidad)>>

KeyTexts(rows) == {KeyText(rows[i]) : i \in DOMAIN rows}

\* Order of the unit column: an object column holding integers and texts
\* is sorted integers first
UnitRank(v) == IF v.t = "num" THEN v.n ELSE 1000 + StrRank(v.s)

Subsets15(rows) == [ i \in DOMAIN rows |-> Subset15(rows[i]) ]

ByCentral15(rows) ==
    [ i \in DOMAIN rows |->
        <<rows[i].fecha_hora, StrRank(rows[i].central), UnitRank(rows[i].unidad)>> ]

ByCentralId15(rows) ==
    [ i \in DOMAIN rows |->
        <<rows[i].fecha_hora, StrRank(rows[i].central_id), UnitRank(rows[i].unidad)>> ]

\* fecha_hora.dt.strftime("%Y%m"): both instants of the model are of
\* January 2025
PeriodoText == (1 :> "202501") @@ (2 :> "202501")

\* df_all["periodo"] = df_all["fecha_hora"].dt.strftime("%Y%m")
WithPeriodo(df_all) ==
    [ i \in DOMAIN df_all |->
        [ c \in DOMAIN df_all[i] \cup {"periodo"} |->
            IF c = "periodo" THEN Str(PeriodoText[df_all[i].fecha_hora])
            ELSE df_all[i][c] ] ]

\* _process_15min from df_all on: the column periodo is added, and the
\* rows of the one period are sorted and lose the later rows of a repeated
\* key
process_15min(df_all) ==
    LET sorted == sort_values(WithPeriodo(df_all), ByCentral15(df_all))
    IN  drop_duplicates(sorted, Subsets15(sorted), "first")

\* Text of a timestamp in the CSV: instant 1 is midnight, instant 2 a
\* quarter past
TimestampText == (1 :> "2025-01-01 00:00:00") @@ (2 :> "2025-01-01 00:15:00")
DateText == (1 :> "2025-01-01") @@ (2 :> "2025-01-01")

\* a datetime column is written as dates when every value is at midnight
DatesOnly(rows) == \A i \in DOMAIN rows : rows[i].fecha_hora = 1

\* the header line is df.columns; every frame written here has rows and
\* the columns fecha_hora (datetime64), unidad (object or int64),
\* energia_mwh (float64) and periodo (object or int64); the others hold
\* texts, or None, which is written as the empty text
to_csv15(rows) ==
    [ exists |-> TRUE,
      columns |-> DOMAIN rows[1],
      rows |-> [ i \in DOMAIN rows |->
                  [ c \in DOMAIN rows[i] |->
                      CASE c = "fecha_hora" ->
                              IF DatesOnly(rows) THEN DateText[rows[i][c]]
                              ELSE TimestampText[rows[i][c]]
                        [] c \in {"unidad", "periodo"} -> CsvCell(rows[i][c])
                        [] c = "energia_mwh" -> FloatText(rows[i][c])
                        [] OTHER -> IF rows[i][c] = NoneId THEN "" ELSE rows[i][c] ] ] ]

\* parse_dates=["fecha_hora"]: a date is read as its midnight
ParseTimestamp(text) ==
    IF text \in RangeOf(DateText) THEN 1
    ELSE CHOOSE t \in DOMAIN TimestampText : TimestampText[t] = text

\* pd.read_csv infers the type of a column from its texts: a unit column
\* whose texts are all integers is read as integers, any other as texts;
\* the column periodo, all digits, is read as integers
IntegerColumn(csv) == \A i \in DOMAIN csv.rows : ParseNum(csv.rows[i].unidad).t = "num"

read_csv15(csv) ==
    [ i \in DOMAIN csv.rows |->
        [ c \in DOMAIN csv.rows[i] |->
            CASE c = "fecha_hora" -> ParseTimestamp(csv.rows[i][c])
              [] c = "unidad" -> IF IntegerColumn(csv) THEN ParseNum(csv.rows[i][c])
                                 ELSE Str(csv.rows[i][c])
              [] c = "periodo" -> ParseNum(csv.rows[i][c])
              [] c = "energia_mwh" ->
                    CHOOSE v \in Energies : FloatText(v) = csv.rows[i][c]
              [] OTHER -> IF csv.rows[i][c] = "" THEN NoneId ELSE csv.rows[i][c] ] ]

NoPartition == [exists |-> FALSE, columns |-> {}, rows |-> <<>>]

\* prev[col] = None for the columns of df_part that prev lacks
FillMissing(prev, columns) ==
    [ i \in DOMAIN prev |->
        [ c \in DOMAIN prev[i] \cup columns |->
            IF c \in DOMAIN prev[i] THEN prev[i][c] ELSE NoneId ] ]

\* prev[df_part.columns]
SelectColumns(prev, columns) ==
    [ i \in DOMAIN prev |-> [ c \in columns |-> prev[i][c] ] ]

\* prev concatenated before df_part, duplicates dropped, then sorted
MergePartition(prev, df_part) ==
    LET all == prev \o df_part
        unique == drop_duplicates(all, Subsets15(all), "first")
    IN  sort_values(unique, ByCentralId15(unique))

\* What earlier runs can have left on disk: a merged partition
Partitions ==
    { WithPeriodo(p) : p \in { q \in SeqsUpTo(Rows15, MaxDisk) :
                                  q # <<>> /\ q = MergePartition(<<>>, q) } }

\* A partition written by a release whose frame had one more column
\* ("fuente"), or lacked the column "central"
WithFuente(p) ==
    [ i \in DOMAIN p |->
        [ c \in DOMAIN p[i] \cup {"fuente"} |->
            IF c = "fuente" THEN "SCADA" ELSE p[i][c] ] ]

WithoutCentral(p) == SelectColumns(p, DOMAIN p[1] \ {"central"})

DiskPartitions ==
    {NoPartition}
        \cup { to_csv15(p) : p \in Partitions }
        \cup { to_csv15(WithFuente(p)) : p \in Partitions }
        \cup { to_csv15(WithoutCentral(p)) : p \in Partitions }

MInit ==
    /\ mdisk \in DiskPartitions
    /\ marchivo \in SeqsUpTo(Rows15, MaxBatch)
    /\ mprev = <<>>
    /\ mpart = <<>>
    /\ mpc = "ready"

\* run_produccion, the body of its loop over the 15-minute files, for one
\* file whose timestamps fall in one period
merge_archivo ==
    /\ mpc = "ready"
    /\ IF marchivo = <<>>
       THEN /\ mpc' = "skipped"
            /\ UNCHANGED <<mdisk, mprev, mpart>>
       ELSE LET df_part == process_15min(marchivo)
                prev == IF mdisk.exists THEN read_csv15(mdisk) ELSE <<>>
                filled == FillMissing(prev, DOMAIN df_part[1])
            IN  /\ mpart' = df_part
                /\ mprev' = prev
                /\ mdisk' = to_csv15(MergePartition(
                                SelectColumns(filled, DOMAIN df_part[1]), df_part))
                /\ mpc' = "merged"
    /\ UNCHANGED <<xvars, wvars, rvars, nvars, hvars, cvars, marchivo>>

\* the next run of run_produccion finds the same file in data_landing and
\* the partition the first run wrote
rerun_archivo ==
    /\ mpc = "merged"
    /\ LET df_part == process_15min(marchivo)
           prev == read_csv15(mdisk)
           filled == FillMissing(prev, DOMAIN df_part[1])
       IN  /\ mpart' = df_part
           /\ mprev' = prev
           /\ mdisk' = to_csv15(MergePartition(
                           SelectColumns(filled, DOMAIN df_part[1]), df_part))
           /\ mpc' = "remerged"
    /\ UNCHANGED <<xvars, wvars, rvars, nvars, hvars, cvars, marchivo>>

MNext ==
    \/ merge_archivo
    \/ rerun_archivo

\* _RUN_CONTEXT as the module defines it, for the runs that never set it
CtxIdle == RUN_CONTEXT = [run_id |-> NoRunId, strict |-> TRUE]

\* _RUN_CONTEXT when a normalizer is called: as the module defines it, or
\* as set_run_context left it
RunContexts ==
    {[run_id |-> NoRunId, strict |-> TRUE]} \cup [run_id : RunIds, strict : BOOLEAN]

InitMerge == MInit /\ CtxIdle /\ WIdle /\ RIdle /\ NIdle /\ HIdle /\ CIdle /\ XIdle

SpecMerge == InitMerge /\ [][MNext]_vars

----------------------------------------------------------------------------
(* The deduplication steps of the normalizers *)

\* A source sheet, row by row: each row names an entity (a label of the
\* sheet), a period (the sheet, line or dated column its value stands in)
\* and a value.
Ents == {1, 2, 3}
Pers == {1, 2}
SrcRows == [ent : Ents, per : Pers, val : Energies]

\* "SAN GABAN" is not a central of the reference and no reference name is
\* within the cutoff of it
CentralLabels == <<"CHARCANI I", "SAN GABAN", "Charcani I">>
ConceptoLabels == <<"PERDIDAS", "VENTA EN COES", "Perdidas">>
SegmentoLabels == <<"COES", "TOTAL", "Coes">>
ReservorioLabels == <<"AGUADA BLANCA", "EL FRAYLE", "PILLONES">>
VolumenSheets == <<"AB", "EF", "PI">>
ClienteLabels == <<"SEAL", "ELECTROSUR", "CERRO VERDE">>

\* concat of one frame per sheet, or melt over the dated columns: the rows
\* of the first period, then those of the second
ByPer(rows) ==
    SelectSeq(rows, LAMBDA r : r.per = 1) \o SelectSeq(rows, LAMBDA r : r.per = 2)

\* one frame per sheet or per column, in their order
ByEnt(rows) ==
    SelectSeq(rows, LAMBDA r : r.ent = 1) \o SelectSeq(rows, LAMBDA r : r.ent = 2)
        \o SelectSeq(rows, LAMBDA r : r.ent = 3)

\* _process_historico: sheets "2010" and "2011" with one month column
\* ENERO; full is the concat of the melted sheets
HistoricoPeriodo == <<"201001", "201101">>

HistoricoMelt(src) ==
    LET s == ByPer(src)
    IN  [ i \in DOMAIN s |->
            [ central_id |-> map_central_id(CentralLabels[s[i].ent]),
              central |-> CentralLabels[s[i].ent],
              anio |-> 2009 + s[i].per,
              mes |-> 1,
              periodo |-> HistoricoPeriodo[s[i].per],
              energia_mwh |-> s[i].val ] ]

\* df_melt.dropna(subset=["central_id"]) on every sheet, then the concat
HistoricoFull(src) ==
    SelectSeq(HistoricoMelt(src), LAMBDA r : r.central_id # NoneId)

ByPeriodoCentral(rows) ==
    [ i \in DOMAIN rows |-> <<StrRank(rows[i].periodo), StrRank(rows[i].central)>> ]

SubsetHistorico(r) == <<r.periodo, r.central, r.central_id>>

process_historico(full) ==
    LET sorted == sort_values(full, ByPeriodoCentral(full))
    IN  drop_duplicates(sorted,
                        [ i \in DOMAIN sorted |-> SubsetHistorico(sorted[i]) ],
                        "first")

\* _process_15min: one column per header label, all of unit G1, one line
\* per timestamp; records holds one frame per column
DfAll15(src) ==
    LET s == ByEnt(src)
    IN  [ i \in DOMAIN s |->
            Row15(s[i].per, CentralLabels[s[i].ent], "G1", s[i].val) ]

\* _procesar_represas: df_out before its final step; every row carries the
\* report date
RepresasOut(src) ==
    [ i \in DOMAIN src |->
        [ fecha |-> "2025-12-11",
          reservorio |-> ReservorioLabels[src[i].ent],
          volumen_actual |-> src[i].val ] ]

SubsetRepresas(r) == <<r.fecha, r.reservorio>>

procesar_represas(df_out) ==
    drop_duplicates(df_out, [ i \in DOMAIN df_out |-> SubsetRepresas(df_out[i]) ],
                    "last")

\* _process_perfil and _process_r: dated columns 2025-01 and 2025-02, each
\* sheet row with a value in one of them
BalancePeriodo == <<"202501", "202502">>

PerfilDf(src) ==
    [ i \in DOMAIN src |->
        [ concepto_norm |-> Upper(ConceptoLabels[src[i].ent]),
          per |-> src[i].per,
          energia_gwh |-> src[i].val ] ]

SubsetConcepto(r) == r.concepto_norm

SubsetPeriodoConcepto(r) == <<r.periodo, r.concepto>>

ByPeriodoConcepto(rows) ==
    [ i \in DOMAIN rows |-> <<StrRank(rows[i].periodo), StrRank(rows[i].concepto)>> ]

process_perfil(df) ==
    LET first == ByPer(drop_duplicates(df,
                           [ i \in DOMAIN df |-> SubsetConcepto(df[i]) ], "first"))
        df_long == [ i \in DOMAIN first |->
                       [ periodo |-> BalancePeriodo[first[i].per],
                         concepto |-> first[i].concepto_norm,
                         energia_mwh |-> first[i].energia_gwh * 1000,
                         energia_gwh |-> first[i].energia_gwh ] ]
        sorted == sort_values(df_long, ByPeriodoConcepto(df_long))
    IN  drop_duplicates(sorted,
                        [ i \in DOMAIN sorted |-> SubsetPeriodoConcepto(sorted[i]) ],
                        "last")

RDf(src) ==
    [ i \in DOMAIN src |->
        [ segmento_norm |-> Upper(SegmentoLabels[src[i].ent]),
          per |-> src[i].per,
          energia_mwh |-> src[i].val ] ]

SubsetPeriodoSegmento(r) == <<r.periodo, r.segmento>>

ByPeriodoSegmento(rows) ==
    [ i \in DOMAIN rows |-> <<StrRank(rows[i].periodo), StrRank(rows[i].segmento)>> ]

process_r(df) ==
    LET melted == ByPer(df)
        df_long == [ i \in DOMAIN melted |->
                       [ periodo |-> BalancePeriodo[melted[i].per],
                         segmento |-> melted[i].segmento_norm,
                         energia_mwh |-> melted[i].energia_mwh ] ]
        sorted == sort_values(df_long, ByPeriodoSegmento(df_long))
    IN  drop_duplicates(sorted,
                        [ i \in DOMAIN sorted |-> SubsetPeriodoSegmento(sorted[i]) ],
                        "last")

\* _procesar_control and run_hidrologia: one sheet per reservoir, one line
\* per year, one month column ENERO
procesar_control(src) ==
    LET s == ByEnt(src)
    IN  [ i \in DOMAIN s |->
            [ reservorio |-> VolumenSheets[s[i].ent],
              anio |-> 2009 + s[i].per,
              mes |-> "01",
              periodo |-> HistoricoPeriodo[s[i].per],
              volumen_000m3 |-> s[i].val ] ]

\* _parse_sales: the sheet has one line per source row and the month
\* columns (ENERO, FEBRERO) under which the source has a value
month_cols(src) ==
    SelectSeq(<<1, 2>>, LAMBDA c : \E i \in DOMAIN src : src[i].per = c)

\* df.melt gives one row per month column and line, the lines of ENERO
\* first; the row of an empty cell holds NaN and stays, since dropna looks
\* at cliente and periodo only
parse_sales(src) ==
    LET cols == month_cols(src)
        n == Len(src)
    IN  [ k \in 1..(Len(cols) * n) |->
            [ cliente |-> ClienteLabels[src[((k - 1) % n) + 1].ent],
              periodo |-> BalancePeriodo[cols[((k - 1) \div n) + 1]],
              mwh |-> IF src[((k - 1) % n) + 1].per = cols[((k - 1) \div n) + 1]
                      THEN Num(src[((k - 1) % n) + 1].val)
                      ELSE Null ] ]

\* the frame of _parse_sales as validate_and_write receives it
SalesTable(rows) ==
    Table(<<"cliente", "periodo", "mwh">>,
          [ i \in DOMAIN rows |->
              [ cliente |-> Str(rows[i].cliente), periodo |-> Str(rows[i].periodo),
                mwh |-> rows[i].mwh ] ])

\* The key columns each normalizer declares in its datasets entry
DeclaredKey(table, r) ==
    CASE table = "generacion_mensual" -> <<r.central_id, r.anio, r.mes, r.periodo>>
      [] table = "generacion_15min_202501" -> <<r.fecha_hora, r.central_id, r.unidad>>
      [] table = "hidro_volumen_mensual" -> <<r.reservorio, r.periodo>>
      [] table = "represas_diario" -> <<r.fecha, r.reservorio>>
      [] table = "ventas_mensual_mwh" -> <<r.cliente, r.periodo>>
      [] table = "balance_perfil_mensual" -> <<r.periodo, r.concepto>>
      [] table = "balance_r_mensual" -> <<r.periodo, r.segmento>>

NoOutput == [table |-> "", rows |-> <<>>]

NInit ==
    /\ nsrc \in SeqsUpTo(SrcRows, MaxSrc)
    /\ nout = NoOutput

Output(table, rows) == [table |-> table, rows |-> rows]

\* the normalizer raised and returned no table
RaisedNorm(error) == [table |-> "", rows |-> <<>>, raised |-> error]

NFrame == UNCHANGED <<xvars, wvars, rvars, mvars, hvars, cvars, nsrc>>

NormHistorico ==
    /\ nout = NoOutput
    /\ nout' = Output("generacion_mensual", process_historico(HistoricoFull(nsrc)))
    /\ NFrame

Norm15min ==
    /\ nout = NoOutput
    /\ nsrc # <<>>
    /\ nout' = Output("generacion_15min_202501", process_15min(DfAll15(nsrc)))
    /\ NFrame

NormControl ==
    /\ nout = NoOutput
    /\ nout' = Output("hidro_volumen_mensual", procesar_control(nsrc))
    /\ NFrame

NormRepresas ==
    /\ nout = NoOutput
    /\ nout' = Output("represas_diario", procesar_represas(RepresasOut(nsrc)))
    /\ NFrame

\* run_facturacion, for ventas_mwh: in strict mode validate_and_write
\* raises on a frame that fails its schema, before datasets is filled
NormVentas ==
    /\ nout = NoOutput
    /\ nout' = IF /\ RUN_CONTEXT.strict
                  /\ SchemaFails(ventas_mensual_mwh, SalesTable(parse_sales(nsrc)))
               THEN RaisedNorm("SchemaErrors")
               ELSE Output("ventas_mensual_mwh", parse_sales(nsrc))
    /\ NFrame

NormPerfil ==
    /\ nout = NoOutput
    /\ nout' = Output("balance_perfil_mensual", process_perfil(PerfilDf(nsrc)))
    /\ NFrame

NormR ==
    /\ nout = NoOutput
    /\ nout' = Output("balance_r_mensual", process_r(RDf(nsrc)))
    /\ NFrame

NNext ==
    \/ NormHistorico
    \/ Norm15min
    \/ NormControl
    \/ NormRepresas
    \/ NormVentas
    \/ NormPerfil
    \/ NormR

InitNorm == NInit /\ RUN_CONTEXT \in RunContexts /\ WIdle /\ RIdle /\ MIdle /\ HIdle /\ CIdle /\ XIdle

SpecNorm == InitNorm /\ [][NNext]_vars

----------------------------------------------------------------------------
(* Properties of the validator and writer (SpecWrite) *)

WDest == SanitizedPath(wjob.path)

ReportOnDisk ==
    \E r \in wreports :
        /\ r.name.safe_dataset = wjob.dataset
        /\ RUN_CONTEXT.run_id # NoRunId => r.name.run_id = RUN_CONTEXT.run_id
        /\ r.payload.dataset = wjob.dataset

\* C1: at every point of a write, and after a crash at any point of it, the
\* destination holds either the complete previous content (or is absent) or
\* the complete new serialization, every other file is untouched, and every
\* temporary file lies in the destination's own directory.
C1_AtomicWrite ==
    wpc # "idle" =>
        /\ wfiles[WDest] \in {wjob.old, ToCsv(wjob.toWrite)}
        /\ wfiles[WDest] # wjob.old => wpc = "returned"
        /\ \A p \in DiskPaths \ {WDest} : wfiles[p] \in OldContents
        /\ \A t \in wtmps : t.dir = WDest.dir

\* C1 witness: a crash while the temporary file is partially written and a
\* previous destination file exists.
C1_Witness ==
    /\ wpc = "crashed"
    /\ wjob.old # Absent
    /\ \E t \in wtmps : /\ t.content # ToCsv(wjob.toWrite)
                        /\ t.content.hdr # <<>>

\* C3: in strict mode a non-empty table that violates its schema never gets
\* to the write: once the exception propagates the report is on disk under
\* validation_<run_id>_<table>, and the destination is as it was before.
C3_StrictFailure ==
    (wpc # "idle" /\ wjob.strict /\ wjob.failures # <<>>) =>
        /\ wpc \in {"report", "raised", "crashed"}
        /\ wfiles[WDest] = wjob.old
        /\ wtmps = {}
        /\ wpc = "raised" => ReportOnDisk

\* C3 witness: the strict call has raised, with a destination file present.
C3_Witness ==
    wpc = "raised" /\ wjob.strict /\ wjob.old # Absent /\ wjob.df.rows # <<>>

\* C4: in non-strict mode a failing table raises nothing: the report is
\* persisted, the original (uncoerced) frame is what reaches the destination
\* and the call returns its row count; the report is on disk in both modes
\* once the call has left the except branch.
C4_NonStrictFailure ==
    (wpc # "idle" /\ wjob.failures # <<>>) =>
        /\ ~wjob.strict => wpc # "raised"
        /\ wpc \in {"raised", "write", "tmp", "closed", "returned"} => ReportOnDisk
        /\ wpc = "returned" =>
              /\ ~wjob.strict
              /\ wfiles[WDest] = ToCsv(wjob.df)
              /\ wjob.ret = Len(wjob.df.rows)

\* C4 witness: a non-strict call returned for a failing table whose coerced
\* form serializes differently from the original.
C4_Witness ==
    /\ wpc = "returned" /\ ~wjob.strict /\ wjob.failures # <<>>
    /\ ToCsv(wjob.df) # ToCsv(Coerced(get_schema(wjob.dataset), wjob.df))

\* C5: the persisted report of a table with two or more failing checks lists
\* every failing check.
C5_ReportListsAllFailures ==
    \A r \in wreports :
        (wpc # "idle" /\ Len(wjob.failures) >= 2 /\ r.payload.dataset = wjob.dataset)
            => /\ r.payload.has_failure_cases
               /\ r.payload.failure_cases = wjob.failures

----------------------------------------------------------------------------
(* Properties of the orchestrator (SpecRun) *)

NormalizerOf(s) ==
    CASE s \in {"produccion_historica", "produccion_15min"} -> "produccion"
      [] s \in {"hidrologia_control", "hidrologia_represas"} -> "hidrologia"
      [] OTHER -> s

Normalizers == RangeOf(Order)

\* The tables a normalizer reports in its datasets entry
TablesOf(n) ==
    CASE n = "produccion" ->
            {"generacion_mensual"}
            \cup (IF landing["produccion_15min"] = "ok"
                  THEN {"generacion_15min_202501"} ELSE {})
      [] n = "hidrologia" ->
            {"hidro_volumen_mensual", "hidro_caudal_mensual", "represas_diario"}
      [] n = "facturacion" ->
            {"ventas_mensual_mwh", "ventas_mensual_soles", "ingresos_mensual",
             "precio_medio_mensual"}
      [] n = "contratos" -> {"contratos_base", "contratos_riesgo"}
      [] OTHER -> {"balance_perfil_mensual", "balance_r_mensual"}

\* C6: a normalizer whose source is configured required=true and has no file
\* in the landing directory never returns (it raises and the run aborts).
C6_MissingRequiredAborts ==
    \A s \in Sources :
        (CONFIG[s] = "true" /\ landing[s] = "absent") => NormalizerOf(s) \notin rdone

\* C7: the normalizers are invoked in the fixed order; once one raises no
\* later one is invoked and metadata.json is not written; the run ends with
\* exit status 1 only after the hint was logged, and with status 0 only
\* after all five ran and the metadata was written.
C7_OrderAndAbort ==
    /\ rcalls = SubSeq(Order, 1, Len(rcalls))
    /\ rdone \subseteq RangeOf(rcalls)
    /\ rerror # "" =>
          /\ rpc \in {"except", "exit1"}
          /\ rdone # Normalizers =>
                /\ rdone = RangeOf(SubSeq(Order, 1, Len(rcalls) - 1))
                /\ "metadata.json" \notin mart
    /\ rpc = "exit1" => rhint /\ rerror # ""
    /\ rpc \in {"write_metadata", "exit0"} => rdone = Normalizers /\ rerror = ""
    /\ rpc = "exit0" => "metadata.json" \in mart /\ ~rhint

\* C7 witness: facturacion raised for a missing required file after two
\* normalizers completed, and the run ended with status 1.
C7_Witness ==
    /\ rpc = "exit1"
    /\ rcalls = <<"produccion", "hidrologia", "facturacion">>
    /\ rerror = "FileNotFoundError"

\* C8: a run appends exactly one line to etl_runs.jsonl and leaves the
\* earlier lines as they were; the line says success iff the five
\* normalizers and write_metadata completed, otherwise failed with the error
\* text, and its row counts cover exactly the tables of the normalizers that
\* returned.
C8_RunLog ==
    /\ rpc \notin {"exit0", "exit1"} => rlog = rlog0
    /\ rpc \in {"exit0", "exit1"} =>
          /\ Len(rlog) = Len(rlog0) + 1
          /\ SubSeq(rlog, 1, Len(rlog0)) = rlog0
          /\ LET rec == rlog[Len(rlog)]
             IN /\ rec.run_id = RUN_CONTEXT.run_id
                /\ rec.status \in {"success", "failed"}
                /\ rec.status = "success" <=>
                      (rdone = Normalizers /\ "metadata.json" \in mart)
                /\ rec.status = "success" => ~rec.has_error
                /\ rec.status = "failed" => rec.has_error /\ rec.error = rerror
                /\ DOMAIN rec.tables = UNION {TablesOf(n) : n \in rdone}

\* C8 witness: a failed run with some normalizers completed, appended after
\* an earlier line.
C8_Witness ==
    /\ rpc = "exit1"
    /\ rlog0 # <<>>
    /\ Len(rlog) = 2
    /\ rlog[2].status = "failed"
    /\ "facturacion" \in rdone

----------------------------------------------------------------------------
(* Properties of the partition merge (SpecMerge) *)

\* C2: after a merge, every key of the new batch that was already in the
\* partition on disk has exactly one row in the merged partition, and that
\* row carries the new batch's value.
C2_NewOverwritesOld ==
    mpc = "merged" =>
        LET merged == read_csv15(mdisk)
        IN  \A i \in DOMAIN mpart :
                (\E j \in DOMAIN mprev : Subset15(mprev[j]) = Subset15(mpart[i])) =>
                    /\ Cardinality({ k \in DOMAIN merged :
                                       Subset15(merged[k]) = Subset15(mpart[i]) }) = 1
                    /\ \A k \in DOMAIN merged :
                           Subset15(merged[k]) = Subset15(mpart[i]) =>
                               merged[k].energia_mwh = mpart[i].energia_mwh

----------------------------------------------------------------------------
(* Properties of the normalizers' deduplication (SpecNorm) *)

\* The frame a normalizer deduplicates, in the order it received the rows,
\* as pairs of the deduplicated key and the value
NormSource(table) ==
    CASE table = "generacion_mensual" ->
            LET f == HistoricoFull(nsrc)
            IN  [ i \in DOMAIN f |-> <<SubsetHistorico(f[i]), f[i].energia_mwh>> ]
      [] table = "generacion_15min_202501" ->
            LET f == DfAll15(nsrc)
            IN  [ i \in DOMAIN f |-> <<Subset15(f[i]), f[i].energia_mwh>> ]
      [] table = "represas_diario" ->
            LET f == RepresasOut(nsrc)
            IN  [ i \in DOMAIN f |-> <<SubsetRepresas(f[i]), f[i].volumen_actual>> ]
      [] table = "balance_perfil_mensual" ->
            LET f == PerfilDf(nsrc)
            IN  [ i \in DOMAIN f |-> <<SubsetConcepto(f[i]), f[i].energia_gwh>> ]
      [] table = "balance_r_mensual" ->
            LET f == RDf(nsrc)
            IN  [ i \in DOMAIN f |->
                    <<<<BalancePeriodo[f[i].per], f[i].segmento_norm>>,
                      f[i].energia_mwh>> ]

\* The returned table, as pairs of the same key and the value
NormOutput(table) ==
    LET f == nout.rows
    IN  CASE table = "generacion_mensual" ->
                [ i \in DOMAIN f |-> <<SubsetHistorico(f[i]), f[i].energia_mwh>> ]
          [] table = "generacion_15min_202501" ->
                [ i \in DOMAIN f |-> <<Subset15(f[i]), f[i].energia_mwh>> ]
          [] table = "represas_diario" ->
                [ i \in DOMAIN f |-> <<SubsetRepresas(f[i]), f[i].volumen_actual>> ]
          [] table = "balance_perfil_mensual" ->
                [ i \in DOMAIN f |-> <<f[i].concepto, f[i].energia_gwh>> ]
          [] table = "balance_r_mensual" ->
                [ i \in DOMAIN f |-> <<SubsetPeriodoSegmento(f[i]), f[i].energia_mwh>> ]

Deduplicated ==
    {"generacion_mensual", "generacion_15min_202501", "represas_diario",
     "balance_perfil_mensual", "balance_r_mensual"}

\* C9: in every table a normalizer returns, no two rows share the value of
\* the key columns the normalizer declares for that table.
C9_NaturalKeyUnique ==
    nout # NoOutput =>
        \A i, j \in DOMAIN nout.rows :
            DeclaredKey(nout.table, nout.rows[i]) = DeclaredKey(nout.table, nout.rows[j])
                => i = j

\* C10: where a normalizer drops the rows that repeat a key, the surviving
\* row of each key is the last one of that key in the order of the source.
C10_LastWins ==
    (nout # NoOutput /\ nout.table \in Deduplicated) =>
        LET src == NormSource(nout.table)
            out == NormOutput(nout.table)
        IN  \A i \in DOMAIN out :
                \A j \in DOMAIN src :
                    (src[j][1] = out[i][1]
                       /\ \A k \in (j + 1)..Len(src) : src[k][1] # out[i][1])
                        => out[i][2] = src[j][2]


----------------------------------------------------------------------------
(* Header detection: utils_io.detect_header_row.  Texts are sequences of
   characters, so that strip, lower, join and the substring test are the
   operations the code performs. *)

NaN == [na |-> TRUE, text |-> <<>>]
Text(t) == [na |-> FALSE, text |-> t]

\* str.lower on the characters of the model
LowerChar(c) ==
    CASE c = "A" -> "a"
      [] c = "B" -> "b"
      [] c = "C" -> "c"
      [] c = "D" -> "d"
      [] c = "E" -> "e"
      [] c = "F" -> "f"
      [] c = "G" -> "g"
      [] c = "H" -> "h"
      [] c = "I" -> "i"
      [] c = "J" -> "j"
      [] c = "K" -> "k"
      [] c = "L" -> "l"
      [] c = "M" -> "m"
      [] c = "N" -> "n"
      [] c = "O" -> "o"
      [] c = "P" -> "p"
      [] c = "Q" -> "q"
      [] c = "R" -> "r"
      [] c = "S" -> "s"
      [] c = "T" -> "t"
      [] c = "U" -> "u"
      [] c = "V" -> "v"
      [] c = "W" -> "w"
      [] c = "X" -> "x"
      [] c = "Y" -> "y"
      [] c = "Z" -> "z"
      [] OTHER -> c

lower(t) == [i \in DOMAIN t |-> LowerChar(t[i])]

\* str.strip: leading and trailing blanks removed
RECURSIVE lstrip(_)
lstrip(t) == IF t # <<>> /\ Head(t) = " " THEN lstrip(Tail(t)) ELSE t

RECURSIVE rstrip(_)
rstrip(t) ==
    IF t # <<>> /\ t[Len(t)] = " " THEN rstrip(SubSeq(t, 1, Len(t) - 1)) ELSE t

strip(t) == rstrip(lstrip(t))

\* sub in t, for str
Contains(t, sub) ==
    \E i \in 1..(Len(t) - Len(sub) + 1) :
        SubSeq(t, i, i + Len(sub) - 1) = sub

\* " ".join(values)
RECURSIVE join(_)
join(values) ==
    IF values = <<>> THEN <<>>
    ELSE IF Len(values) = 1 THEN values[1]
    ELSE values[1] \o <<" ">> \o join(Tail(values))

\* keyword_set and expected_set of detect_header_row ("keywords or []")
keyword_set(keywords) ==
    {lower(strip(keywords.items[i])) :
        i \in {j \in DOMAIN keywords.items : keywords.items[j] # <<>>}}

expected_set(expected_columns) ==
    {lower(strip(expected_columns.items[i])) : i \in DOMAIN expected_columns.items}

\* the texts of the cells of a row that are not NaN and not blank
RECURSIVE row_values(_)
row_values(row) ==
    IF row = <<>> THEN <<>>
    ELSE IF ~Head(row).na /\ strip(Head(row).text) # <<>>
         THEN <<lower(strip(Head(row).text))>> \o row_values(Tail(row))
         ELSE row_values(Tail(row))

\* the keyword test of one row
KeywordRow(row, kws) ==
    /\ kws # {}
    /\ \A kw \in kws :
          \/ \E i \in DOMAIN row_values(row) : Contains(row_values(row)[i], kw)
          \/ Contains(join(row_values(row)), kw)

Max(a, b) == IF a >= b THEN a ELSE b

\* the expected-label test of one row: match_ratio >= 0.6
ExpectedRow(row, exps) ==
    /\ exps # {}
    /\ 10 * Cardinality(exps \cap RangeOf(row_values(row)))
          >= 6 * Max(Cardinality(exps), 1)

\* the loop over df_preview.iterrows(), from row idx on (1-based position);
\* the value returned is the 0-based index
RECURSIVE ScanRows(_, _, _, _)
ScanRows(df_preview, kws, exps, idx) ==
    IF idx > Len(df_preview) THEN 0
    ELSE IF KeywordRow(df_preview[idx], kws) THEN idx - 1
    ELSE IF ExpectedRow(df_preview[idx], exps) THEN idx - 1
    ELSE ScanRows(df_preview, kws, exps, idx + 1)

detect_header_row(df_preview, expected_columns, keywords) ==
    ScanRows(df_preview, keyword_set(keywords), expected_set(expected_columns), 1)

\* Inputs
GridColumns == 2
GridCells ==
    {NaN, Text(<<"A", " ">>), Text(<<"b">>), Text(<<"a", "b">>)}
GridRows == [1..GridColumns -> GridCells]
Grids == SeqsUpTo(GridRows, MaxGridRows)

KeywordArgs ==
    {None,
     Given(<<<<"a">>>>),
     Given(<<<<"a">>, <<" ", "B">>>>),
     Given(<<<<"a", " ", "b">>>>),
     Given(<<<< >>>>),
     Given(<<<<" ">>>>)}

ExpectedArgs ==
    {None,
     Given(<<<<"a">>, <<"b">>>>),
     Given(<<<<"A", " ">>, <<"b">>, <<"c">>>>)}

NotCalled == -1

HInit ==
    /\ hgrid \in Grids
    /\ hkeywords \in KeywordArgs
    /\ hexpected \in ExpectedArgs
    /\ hrow = NotCalled

\* a caller passing keywords only (the source normalizers)
DetectByKeywords ==
    /\ hrow = NotCalled
    /\ hexpected = None
    /\ hrow' = detect_header_row(hgrid, None, hkeywords)
    /\ UNCHANGED <<xvars, wvars, rvars, mvars, nvars, cvars, hgrid, hkeywords, hexpected>>

\* read_excel_safe: detect_header_row(preview, expected_columns, header_keywords)
read_excel_safe ==
    /\ hrow = NotCalled
    /\ hexpected.given \/ hkeywords.given
    /\ hrow' = detect_header_row(hgrid, hexpected, hkeywords)
    /\ UNCHANGED <<xvars, wvars, rvars, mvars, nvars, cvars, hgrid, hkeywords, hexpected>>

HNext == DetectByKeywords \/ read_excel_safe

InitHeader == HInit /\ CtxIdle /\ WIdle /\ RIdle /\ MIdle /\ NIdle /\ CIdle /\ XIdle
SpecHeader == InitHeader /\ [][HNext]_vars

----------------------------------------------------------------------------
(* Properties of header detection (SpecHeader) *)

\* a row holds every keyword token: each token is a substring of the text of
\* some cell that is not blank, or of the texts joined by blanks
HoldsEveryKeyword(k) ==
    \A kw \in keyword_set(hkeywords) :
        \/ \E c \in DOMAIN hgrid[k] :
              /\ ~hgrid[k][c].na
              /\ strip(hgrid[k][c].text) # <<>>
              /\ Contains(lower(strip(hgrid[k][c].text)), kw)
        \/ Contains(join(row_values(hgrid[k])), kw)

FirstKeywordRow(k) ==
    /\ k \in DOMAIN hgrid
    /\ HoldsEveryKeyword(k)
    /\ \A j \in 1..(k - 1) : ~HoldsEveryKeyword(j)

\* C11: for any grid and any keyword set given, when row k is the first row
\* that holds every keyword token, detect_header_row returns k (0-based).
C11_KeywordRowReturned ==
    (hrow # NotCalled /\ keyword_set(hkeywords) # {}) =>
        \A k \in DOMAIN hgrid : FirstKeywordRow(k) => hrow = k - 1

\* The same statement for the calls that pass no expected labels.
C11_KeywordsOnly ==
    (hrow # NotCalled /\ keyword_set(hkeywords) # {} /\ hexpected = None) =>
        \A k \in DOMAIN hgrid : FirstKeywordRow(k) => hrow = k - 1

C11_KeywordsOnlyWitness ==
    /\ hrow = 1
    /\ hexpected = None
    /\ FirstKeywordRow(2)

\* a row holds at least 60% of the expected labels as exact lowercase cells
HoldsExpected(k) ==
    LET exps == expected_set(hexpected)
        cells == {lower(strip(hgrid[k][c].text)) :
                    c \in {d \in DOMAIN hgrid[k] : ~hgrid[k][d].na}}
    IN  10 * Cardinality(exps \cap cells) >= 6 * Cardinality(exps)

\* C12: the expected labels are consulted only when no keyword set is given:
\* with keywords the first row holding every keyword is returned, without
\* them the first row holding 60% of the expected labels, and 0 when no row
\* is accepted.
C12_ModeSelection ==
    hrow # NotCalled =>
        IF keyword_set(hkeywords) # {}
        THEN IF \E k \in DOMAIN hgrid : HoldsEveryKeyword(k)
             THEN \A k \in DOMAIN hgrid : FirstKeywordRow(k) => hrow = k - 1
             ELSE hrow = 0
        ELSE IF hexpected.given /\ \E k \in DOMAIN hgrid : HoldsExpected(k)
             THEN /\ hrow + 1 \in DOMAIN hgrid
                  /\ HoldsExpected(hrow + 1)
                  /\ \A j \in 1..hrow : ~HoldsExpected(j)
             ELSE hrow = 0

\* The fallback part alone: without keywords the first row holding 60% of
\* the expected labels is returned, and 0 when there is none.
C12_ExpectedFallback ==
    (hrow # NotCalled /\ keyword_set(hkeywords) = {}) =>
        IF hexpected.given /\ \E k \in DOMAIN hgrid : HoldsExpected(k)
        THEN /\ hrow + 1 \in DOMAIN hgrid
             /\ HoldsExpected(hrow + 1)
             /\ \A j \in 1..hrow : ~HoldsExpected(j)
        ELSE hrow = 0


----------------------------------------------------------------------------
(* Entity reconciliation: utils_cleaning.map_central_id with its closure
   _match, difflib.get_close_matches and SequenceMatcher.ratio, on texts
   that are sequences of characters. *)

UpperChar(c) ==
    CASE c = "a" -> "A"
      [] c = "b" -> "B"
      [] c = "c" -> "C"
      [] c = "d" -> "D"
      [] c = "e" -> "E"
      [] c = "f" -> "F"
      [] c = "g" -> "G"
      [] c = "h" -> "H"
      [] c = "i" -> "I"
      [] c = "j" -> "J"
      [] c = "k" -> "K"
      [] c = "l" -> "L"
      [] c = "m" -> "M"
      [] c = "n" -> "N"
      [] c = "o" -> "O"
      [] c = "p" -> "P"
      [] c = "q" -> "Q"
      [] c = "r" -> "R"
      [] c = "s" -> "S"
      [] c = "t" -> "T"
      [] c = "u" -> "U"
      [] c = "v" -> "V"
      [] c = "w" -> "W"
      [] c = "x" -> "X"
      [] c = "y" -> "Y"
      [] c = "z" -> "Z"
      [] OTHER -> c

IsAlnum(c) ==
    c \in {"0", "1", "2", "3", "4", "5", "6", "7", "8", "9", "A", "B", "C",
          "D", "E", "F", "G", "H", "I", "J", "K", "L", "M", "N", "O", "P",
          "Q", "R", "S", "T", "U", "V", "W", "X", "Y", "Z", "a", "b", "c",
          "d", "e", "f", "g", "h", "i", "j", "k", "l", "m", "n", "o", "p",
          "q", "r", "s", "t", "u", "v", "w", "x", "y", "z"}

\* " ".join(value.split()) on a text already stripped on the left
RECURSIVE squeeze(_)
squeeze(t) ==
    IF t = <<>> THEN <<>>
    ELSE IF Head(t) = " " /\ (Tail(t) = <<>> \/ Head(Tail(t)) = " ")
         THEN squeeze(Tail(t))
         ELSE <<Head(t)>> \o squeeze(Tail(t))

\* normalize_text on ASCII texts: what is not alphanumeric becomes a blank,
\* upper case, runs of blanks collapsed and the ends stripped
normalize_text_chars(value) ==
    squeeze(lstrip([i \in DOMAIN value |->
                      IF IsAlnum(value[i]) THEN UpperChar(value[i]) ELSE " "]))

\* df[source_col].astype(str): a missing label becomes the text "nan"
astype_str(cell) == IF cell.na THEN <<"n", "a", "n">> ELSE cell.text

\* the blocks a[i .. i+k-1] = b[j .. j+k-1] inside a[alo..ahi], b[blo..bhi]
Blocks(a, alo, ahi, b, blo, bhi) ==
    {blk \in (alo..ahi) \X (blo..bhi) \X (1..(ahi - alo + 1)) :
        /\ blk[1] + blk[3] - 1 <= ahi
        /\ blk[2] + blk[3] - 1 <= bhi
        /\ SubSeq(a, blk[1], blk[1] + blk[3] - 1)
             = SubSeq(b, blk[2], blk[2] + blk[3] - 1)}

\* SequenceMatcher.find_longest_match: the longest block, of those the one
\* starting earliest in a, of those the one starting earliest in b
find_longest_match(a, alo, ahi, b, blo, bhi) ==
    LET bs == Blocks(a, alo, ahi, b, blo, bhi)
    IN  CHOOSE x \in bs : \A y \in bs :
            \/ x[3] > y[3]
            \/ x[3] = y[3] /\ x[1] < y[1]
            \/ x[3] = y[3] /\ x[1] = y[1] /\ x[2] <= y[2]

\* the total size of SequenceMatcher.get_matching_blocks: the longest block,
\* then the same to its left and to its right
RECURSIVE matches(_, _, _, _, _, _)
matches(a, alo, ahi, b, blo, bhi) ==
    IF Blocks(a, alo, ahi, b, blo, bhi) = {} THEN 0
    ELSE LET m == find_longest_match(a, alo, ahi, b, blo, bhi)
         IN  m[3] + matches(a, alo, m[1] - 1, b, blo, m[2] - 1)
                  + matches(a, m[1] + m[3], ahi, b, m[2] + m[3], bhi)

\* SequenceMatcher(a, b).ratio() = 2.0 * matches / (len(a) + len(b)), kept as
\* a fraction; 1.0 when both texts are empty
ratio(a, b) ==
    IF Len(a) + Len(b) = 0 THEN [num |-> 1, den |-> 1]
    ELSE [num |-> 2 * matches(a, 1, Len(a), b, 1, Len(b)), den |-> Len(a) + Len(b)]

\* a matcher without cutoff: every ratio is accepted
AnyRatio(r) == r.num >= 0

\* ratio >= cutoff, with cutoff = 0.6
AtLeastCutoff(r) == 10 * r.num >= 6 * r.den

\* the order of str on the characters of normalized names
CharRank(c) ==
    LET ascii == <<" ", "-", ".", "0", "1", "2", "3", "4", "5", "6", "7", "8", "9",
                   ":", "A", "B", "C", "D", "E", "F", "G", "H", "I", "J", "K", "L",
                   "M", "N", "O", "P", "Q", "R", "S", "T", "U", "V", "W", "X", "Y",
                   "Z", "_", "a", "b", "c", "d", "e", "f", "g", "h", "i", "j", "k",
                   "l", "m", "n", "o", "p", "q", "r", "s", "t", "u", "v", "w", "x",
                   "y", "z", "|">>
    IN  CHOOSE i \in DOMAIN ascii : ascii[i] = c

RECURSIVE TextLess(_, _)
TextLess(x, y) ==
    IF y = <<>> THEN FALSE
    ELSE IF x = <<>> THEN TRUE
    ELSE IF Head(x) # Head(y) THEN CharRank(Head(x)) < CharRank(Head(y))
    ELSE TextLess(Tail(x), Tail(y))

\* (score, x) < (score', y) as heapq.nlargest compares the candidates
ScoredLess(x, y, word) ==
    LET rx == ratio(x, word)
        ry == ratio(y, word)
    IN  \/ rx.num * ry.den < ry.num * rx.den
        \/ rx.num * ry.den = ry.num * rx.den /\ TextLess(x, y)

\* difflib.get_close_matches(word, possibilities, n=1, cutoff=0.6)
get_close_matches(word, possibilities) ==
    LET result == {x \in possibilities : AtLeastCutoff(ratio(x, word))}
    IN  IF result = {} THEN <<>>
        ELSE <<CHOOSE x \in result : \A y \in result : y = x \/ ScoredLess(y, x, word)>>

\* dict(zip(centrales_df["central_nombre_norm"], centrales_df["central_id"])):
\* a name repeated in the reference keeps the id of its last row
dict_zip(centrales_df) ==
    [name \in {centrales_df[i].central_nombre_norm : i \in DOMAIN centrales_df} |->
        LET rows == {i \in DOMAIN centrales_df :
                        centrales_df[i].central_nombre_norm = name}
        IN  centrales_df[CHOOSE i \in rows : \A j \in rows : j <= i].central_id]

\* dict.get(name)
DictGet(d, name) == IF name \in DOMAIN d THEN d[name] ELSE NoneId

\* _match(name): the id returned and the cache it leaves
_match(name, centrales_df, cache) ==
    LET cmap == dict_zip(centrales_df)
        direct == DictGet(cmap, name)
        closest == get_close_matches(name, DOMAIN cmap)
        found == IF closest # <<>> THEN DictGet(cmap, closest[1]) ELSE NoneId
    IN  IF name \in DOMAIN cache
        THEN [id |-> cache[name], cache |-> cache]
        ELSE IF direct # NoneId
        THEN [id |-> direct, cache |-> cache @@ (name :> direct)]
        ELSE [id |-> found, cache |-> cache @@ (name :> found)]

\* Inputs
RawLabels ==
    {NaN,
     Text(<<"a", "b", "a">>),
     Text(<<"A", "b", "-", "a">>),
     Text(<<"B">>),
     Text(<<"A">>),
     Text(<<"a", "b", "a", "-", "1", "1", "1">>),
     Text(<<"A", "B">>),
     Text(<<" ", "a", "b", "1", " ">>)}

RefRow(name, id) == [central_nombre_norm |-> name, central_id |-> id]

References ==
    {<<>>,
     <<RefRow(<<"A", "B", "A">>, "CH1"), RefRow(<<"B", "B">>, "CH2")>>,
     <<RefRow(<<"A", "B", "1">>, "CH1"), RefRow(<<"A", "B", "2">>, "CH2")>>,
     <<RefRow(<<"A", "B", "A">>, "CH1"), RefRow(<<"A", "B", "A">>, "CH2")>>}

EmptyCache == [name \in {} |-> NoneId]

CInit ==
    /\ clabels \in SeqsUpTo(RawLabels, MaxLabels)
    /\ cref \in References
    /\ ccache = EmptyCache
    /\ cids = <<>>

CFrame == UNCHANGED <<xvars, wvars, rvars, mvars, nvars, hvars, clabels, cref>>

\* map_central_id with an empty reference: every row gets None
MapWithoutReference ==
    /\ cids = <<>>
    /\ clabels # <<>>
    /\ cref = <<>>
    /\ cids' = [i \in DOMAIN clabels |-> NoneId]
    /\ UNCHANGED ccache
    /\ CFrame

\* df["central_nombre_norm"].map(_match), one row at a time
MatchRow ==
    /\ cref # <<>>
    /\ Len(cids) < Len(clabels)
    /\ LET name == normalize_text_chars(astype_str(clabels[Len(cids) + 1]))
           r == _match(name, cref, ccache)
       IN  /\ cids' = Append(cids, r.id)
           /\ ccache' = r.cache
    /\ CFrame

CNext == MapWithoutReference \/ MatchRow

InitMap == CInit /\ CtxIdle /\ WIdle /\ RIdle /\ MIdle /\ NIdle /\ HIdle /\ XIdle
SpecMap == InitMap /\ [][CNext]_vars


----------------------------------------------------------------------------
(* Properties of entity reconciliation (SpecMap) *)

\* the normalized text of the label of row i
LabelNorm(i) == normalize_text_chars(astype_str(clabels[i]))

RefNames == {cref[r].central_nombre_norm : r \in DOMAIN cref}

\* the similarity of a reference name to a text is at least 0.6
Similar(name, text) ==
    10 * ratio(name, text).num >= 6 * ratio(name, text).den

\* no reference name is more similar to the text than this one
Closest(name, text) ==
    \A other \in RefNames :
        ratio(other, text).num * ratio(name, text).den
            <= ratio(name, text).num * ratio(other, text).den

\* C13: the id of a row is the id of the reference name equal to its
\* normalized label when there is one, else the id of a closest reference
\* name of similarity at least 0.6, else null; rows with the same raw label
\* get the same id; a label with no reference name at or above the cutoff
\* gets null.
C13_IdFromNormalizedLabel ==
    /\ \A i \in DOMAIN cids :
          IF LabelNorm(i) \in RefNames
          THEN \E r \in DOMAIN cref :
                  /\ cref[r].central_nombre_norm = LabelNorm(i)
                  /\ cids[i] = cref[r].central_id
          ELSE IF \E name \in RefNames : Similar(name, LabelNorm(i))
          THEN \E r \in DOMAIN cref :
                  /\ Similar(cref[r].central_nombre_norm, LabelNorm(i))
                  /\ Closest(cref[r].central_nombre_norm, LabelNorm(i))
                  /\ cids[i] = cref[r].central_id
          ELSE cids[i] = NoneId
    /\ \A i, j \in DOMAIN cids : clabels[i] = clabels[j] => cids[i] = cids[j]

\* a label matched at exactly the cutoff, mapped a second time from the
\* cache, in a frame where another label found nothing
C13_Witness ==
    /\ Len(cids) = 2
    /\ clabels[1] = clabels[2]
    /\ LabelNorm(1) \notin RefNames
    /\ LabelNorm(1) \in DOMAIN ccache
    /\ \E name \in RefNames :
          ratio(name, LabelNorm(1)) = [num |-> 6, den |-> 10]
    /\ cids[2] = "CH1"

\* a label with no reference name at or above the cutoff has been mapped
C13_WitnessNull ==
    /\ cref # <<>>
    /\ \E i \in DOMAIN cids :
          /\ \A name \in RefNames : ~Similar(name, LabelNorm(i))
          /\ cids[i] = NoneId


----------------------------------------------------------------------------
(* Unmapped entities in the tables carrying central_id (SpecNorm) *)

\* "central_id" in df.columns, "central_raw" in df.columns and
\* "cliente" in df.columns
CentralIdTables == {"generacion_mensual", "generacion_15min_202501"}
CentralRawTables == {"generacion_15min_202501"}
ClienteTables ==
    {"ventas_mensual_mwh", "ventas_mensual_soles", "precio_medio_mensual",
     "contratos_base", "contratos_riesgo"}

\* df.loc[missing_mask, "central_raw"] ... .value_counts().head(20): the
\* distinct non-empty header texts of the given rows by falling number of
\* rows, those of equal number in the order they first appear
value_counts(rows, missing) ==
    LET first == {i \in missing :
                    /\ rows[i].central_raw # ""
                    /\ \A j \in missing : j < i => rows[j].central_raw # rows[i].central_raw}
        n == Cardinality(first)
        nth == [k \in 1..n |->
                   CHOOSE i \in first : Cardinality({j \in first : j < i}) = k - 1]
        top == [k \in 1..n |->
                   [central_raw |-> rows[nth[k]].central_raw,
                    filas |-> Cardinality({j \in missing :
                                             rows[j].central_raw = rows[nth[k]].central_raw})]]
    IN  sort_values(top, [k \in 1..n |-> <<0 - top[k].filas>>])

\* quality_checks._quality_counters: the counters of one table
_quality_counters(table, rows) ==
    LET missing_mask ==
            IF table \in CentralIdTables
            THEN {i \in DOMAIN rows : rows[i].central_id = NoneId}
            ELSE {}
    IN  (IF table \in CentralIdTables
         THEN "centrales_no_mapeadas" :> Cardinality(missing_mask)
         ELSE <<>>)
        @@
        (IF missing_mask # {} /\ table \in CentralRawTables
         THEN "centrales_no_mapeadas_top" :> value_counts(rows, missing_mask)
         ELSE <<>>)
        @@
        (IF table \in ClienteTables
         THEN "clientes_vacios" :>
                 Cardinality({i \in DOMAIN rows : rows[i].cliente \in {NoneId, "", " "}})
         ELSE <<>>)

\* the source rows whose entity label has no reference match
UnmappedSource == {i \in DOMAIN nsrc : map_central_id(CentralLabels[nsrc[i].ent]) = NoneId}

\* no two source rows are readings of the same entity and period
SourceWithoutRepeats ==
    \A i, j \in DOMAIN nsrc :
        (nsrc[i].ent = nsrc[j].ent /\ nsrc[i].per = nsrc[j].per) => i = j

\* the output holds source row i with a null central_id
KeptWithNullId(i) ==
    \E k \in DOMAIN nout.rows :
        /\ nout.rows[k].central = CentralLabels[nsrc[i].ent]
        /\ nout.rows[k].energia_mwh = nsrc[i].val
        /\ nout.rows[k].central_id = NoneId

\* C14: in every table carrying central_id, each source row whose label has
\* no reference match is in the output with a null central_id, and the
\* table's centrales_no_mapeadas counter is the number of such source rows.
C14_UnmappedKeptAndCounted ==
    (nout.table \in CentralIdTables /\ SourceWithoutRepeats) =>
        /\ \A i \in UnmappedSource : KeptWithNullId(i)
        /\ _quality_counters(nout.table, nout.rows)["centrales_no_mapeadas"]
              = Cardinality(UnmappedSource)

\* The same statement for the 15-minute table alone.
C14_Unmapped15min ==
    (nout.table = "generacion_15min_202501" /\ SourceWithoutRepeats) =>
        /\ \A i \in UnmappedSource : KeptWithNullId(i)
        /\ _quality_counters(nout.table, nout.rows)["centrales_no_mapeadas"]
              = Cardinality(UnmappedSource)

C14_Unmapped15minWitness ==
    /\ nout.table = "generacion_15min_202501"
    /\ SourceWithoutRepeats
    /\ Cardinality(UnmappedSource) = 2


----------------------------------------------------------------------------
(* Column sets in the partition merge (SpecMerge) *)

\* the columns of the partition read from disk and of the rows just parsed
PrevColumns == IF mprev = <<>> THEN {} ELSE DOMAIN mprev[1]
PartColumns == DOMAIN mpart[1]

\* C15: when the partition on disk and the new rows differ in their columns,
\* the merged partition has the union of both column sets, the rows of the
\* side lacking a column holding null in it; no column of the partition on
\* disk is dropped.
C15_ColumnsUnion ==
    (mpc = "merged" /\ mprev # <<>>) =>
        /\ mdisk.columns = PrevColumns \cup PartColumns
        /\ \A k \in DOMAIN mdisk.rows : DOMAIN mdisk.rows[k] = mdisk.columns

\* The half of it about the columns the partition on disk lacks: they are
\* in the merged partition, null in the rows that came from disk.
C15_MissingOnDiskFilled ==
    (mpc = "merged" /\ mprev # <<>>) =>
        /\ PartColumns \subseteq mdisk.columns
        /\ \A c \in PartColumns \ PrevColumns :
              \A j \in DOMAIN mprev :
                  \E k \in DOMAIN mdisk.rows :
                      /\ KeyText(read_csv15(mdisk)[k]) = KeyText(mprev[j])
                      /\ mdisk.rows[k][c] \in {"", mpart[1][c]}

C15_MissingOnDiskWitness ==
    /\ mpc = "merged"
    /\ mprev # <<>>
    /\ "central" \notin PrevColumns
    /\ \E k \in DOMAIN mdisk.rows : mdisk.rows[k]["central"] = ""


----------------------------------------------------------------------------
(* Validation bypass and write postcondition (SpecWrite) *)

\* C16: the schema is applied exactly to the non-empty tables that have one.
\* A table without schema, or without rows, raises nothing, leaves no
\* validation report and is written as it is; any other table goes through
\* schema.validate, whose outcome decides what follows.
C16_ValidationBypass ==
    wpc # "idle" =>
        IF get_schema(wjob.dataset) = NoSchema \/ wjob.df.rows = <<>>
        THEN /\ wpc \notin {"report", "raised"}
             /\ wreports = {}
             /\ wjob.failures = <<>>
             /\ wjob.toWrite = wjob.df
             /\ wpc = "returned" => wfiles[WDest] = ToCsv(wjob.df)
        ELSE LET res == validate(get_schema(wjob.dataset), wjob.df, TRUE)
             IN  /\ wjob.failures = res.failures
                 /\ res.failures = <<>> => wjob.toWrite = res.validated
                 /\ (res.failures # <<>> /\ wpc \notin {"report", "crashed"})
                        => ReportOnDisk

\* an empty table that its schema would reject has been written
C16_Witness ==
    /\ wpc = "returned"
    /\ get_schema(wjob.dataset) # NoSchema
    /\ wjob.df.rows = <<>>
    /\ validate(get_schema(wjob.dataset), wjob.df, TRUE).failures # <<>>
    /\ wfiles[WDest] = ToCsv(wjob.df)
    /\ wreports = {}

\* a non-empty table without schema has been written
C16_WitnessNoSchema ==
    /\ wpc = "returned"
    /\ get_schema(wjob.dataset) = NoSchema
    /\ wjob.df.rows # <<>>
    /\ wfiles[WDest] = ToCsv(wjob.df)


\* the path holds a file that is the complete serialization of a table of
\* n rows
HoldsTableOfRows(path, n) ==
    /\ wfiles[path] # Absent
    /\ wfiles[path] = ToCsv(wjob.toWrite)
    /\ Len(wfiles[path].rows) = n

\* C17, as stated: when the call returns n, the given destination path holds
\* the complete serialization of a table of n rows, and n is the number of
\* rows of the input.
C17_FileAtGivenPath ==
    wpc = "returned" =>
        /\ HoldsTableOfRows(wjob.path, wjob.ret)
        /\ wjob.ret = Len(wjob.df.rows)

\* C17, amended: when the call returns n, the destination path with its file
\* name sanitized holds the complete serialization of a table of n rows, and
\* n is the number of rows of the input.
C17_FileAtSanitizedPath ==
    wpc = "returned" =>
        /\ HoldsTableOfRows(SanitizedPath(wjob.path), wjob.ret)
        /\ wjob.ret = Len(wjob.df.rows)

\* a call given the name " .", of which the sanitizing leaves nothing, has
\* returned 2: the file is named "_"
C17_Witness ==
    /\ wpc = "returned"
    /\ wjob.path.name = <<" ", ".">>
    /\ wjob.ret = 2
    /\ wfiles[wjob.path] = Absent
    /\ wfiles[Path(DATA_MART, <<"_">>)] = ToCsv(wjob.toWrite)


----------------------------------------------------------------------------
(* The normalizers of the optional sources: run_contratos and
   run_balance_energia, with or without a matching file *)

\* the empty frames run_contratos starts from
ContratosEmptyColumns ==
    {"cliente", "tipo", "fecha_inicio", "fecha_fin", "energia_mwh", "precio"}

\* _clean_contracts: the frame of one sheet (df_out, or the empty frame of
\* its first return, which has the same columns)
clean_contracts(src) ==
    [ columns |-> {"cliente", "tipo_contrato", "fecha_inicio", "fecha_fin",
                   "potencia_mw", "precio_hp_usd_mwh", "precio_fp_usd_mwh"},
      rows |-> [ i \in DOMAIN src |->
                  [ cliente |-> ClienteLabels[src[i].ent],
                    tipo_contrato |-> "LIBRE",
                    fecha_inicio |-> src[i].per,
                    fecha_fin |-> src[i].per + 1,
                    potencia_mw |-> src[i].val,
                    precio_hp_usd_mwh |-> src[i].val,
                    precio_fp_usd_mwh |-> src[i].val ] ] ]

\* what run_contratos hands to validate_and_write for either of its tables
contratos_frame(present, src) ==
    IF present THEN clean_contracts(src)
    ELSE [columns |-> ContratosEmptyColumns, rows |-> <<>>]

\* empty1 and empty2 of run_balance_energia
BalanceEmptyColumns(table) ==
    IF table = "balance_perfil_mensual"
    THEN {"periodo", "fecha_mes", "concepto", "energia_mwh", "energia_gwh"}
    ELSE {"periodo", "fecha_mes", "segmento", "energia_mwh"}

\* the column selection that ends _process_perfil and _process_r
BalanceLongColumns(table) ==
    IF table = "balance_perfil_mensual"
    THEN {"periodo", "fecha_mes", "concepto", "energia_mwh", "energia_gwh"}
    ELSE {"periodo", "fecha_mes", "segmento", "energia_mwh"}

\* what run_balance_energia writes for either of its tables
balance_frame(table, present, src) ==
    IF present
    THEN [ columns |-> BalanceLongColumns(table),
           rows |-> IF table = "balance_perfil_mensual"
                    THEN process_perfil(PerfilDf(src))
                    ELSE process_r(RDf(src)) ]
    ELSE [columns |-> BalanceEmptyColumns(table), rows |-> <<>>]

\* the key columns a normalizer declares for its table
KeyColumns(table) ==
    CASE table \in {"contratos_base", "contratos_riesgo"} -> {"cliente", "fecha_inicio"}
      [] table = "balance_perfil_mensual" -> {"periodo", "concepto"}
      [] table = "balance_r_mensual" -> {"periodo", "segmento"}

ContratosTables == {"contratos_base", "contratos_riesgo"}
BalanceTables == {"balance_perfil_mensual", "balance_r_mensual"}

Emitted(table, present, required, frame) ==
    [ table |-> table, present |-> present, required |-> required,
      raised |-> FALSE, columns |-> frame.columns, rows |-> frame.rows ]

RaisedOutput(table, required) ==
    [ table |-> table, present |-> FALSE, required |-> required,
      raised |-> TRUE, columns |-> {}, rows |-> <<>> ]

\* run_contratos, for one of its tables
OptContratos ==
    /\ nout = NoOutput
    /\ \E table \in ContratosTables, present \in BOOLEAN, required \in BOOLEAN :
          nout' = IF ~present /\ required
                  THEN RaisedOutput(table, required)
                  ELSE Emitted(table, present, required,
                               contratos_frame(present, nsrc))
    /\ NFrame

\* run_balance_energia, for one of its tables
OptBalance ==
    /\ nout = NoOutput
    /\ \E table \in BalanceTables, present \in BOOLEAN, required \in BOOLEAN :
          nout' = Emitted(table, present, required,
                          balance_frame(table, present, nsrc))
    /\ NFrame

ONext == OptContratos \/ OptBalance

InitOptional == NInit /\ CtxIdle /\ WIdle /\ RIdle /\ MIdle /\ HIdle /\ CIdle /\ XIdle
SpecOptional == InitOptional /\ [][ONext]_vars

----------------------------------------------------------------------------
(* Properties of the optional sources (SpecOptional) *)

\* the columns of the table the normalizer produces when the file is there
PresentColumns(table) ==
    IF table \in ContratosTables
    THEN contratos_frame(TRUE, nsrc).columns
    ELSE balance_frame(table, TRUE, nsrc).columns

\* C18: an optional source without a matching file does not make its
\* normalizer raise; the tables emitted are empty, have the columns of the
\* table produced from a present source, and hold the declared key columns.
C18_AbsentOptionalShape ==
    (nout # NoOutput /\ ~nout.present /\ ~nout.required) =>
        /\ ~nout.raised
        /\ nout.rows = <<>>
        /\ KeyColumns(nout.table) \subseteq nout.columns
        /\ nout.columns = PresentColumns(nout.table)

\* The same statement for the energy balance alone.
C18_AbsentBalanceShape ==
    (nout # NoOutput /\ nout.table \in BalanceTables /\ ~nout.present) =>
        /\ ~nout.raised
        /\ nout.rows = <<>>
        /\ KeyColumns(nout.table) \subseteq nout.columns
        /\ nout.columns = PresentColumns(nout.table)

C18_AbsentBalanceWitness ==
    /\ nout # NoOutput
    /\ nout.table = "balance_r_mensual"
    /\ ~nout.present
    /\ nout.columns = BalanceEmptyColumns("balance_r_mensual")


----------------------------------------------------------------------------
(* The metadata sidecar and the output files of a run (SpecRun) *)

\* "fecha" in c or "periodo" in c, on the column names of the tables
IsDateColumn(c) ==
    c \in {"fecha", "fecha_hora", "fecha_inicio", "fecha_fin", "fecha_mes", "periodo"}

\* _date_bounds._dates_from_anio_mes: the first day of each row's month, NaT
\* where the parts are no date; no series without the two columns
_dates_from_anio_mes(frame) ==
    IF {"anio", "mes"} \subseteq RangeOf(frame.cols)
    THEN [i \in DOMAIN frame.rows |->
             LET years == to_numeric(frame.rows[i].anio)
                 months == to_numeric(frame.rows[i].mes)
             IN  IF years.t = "num" /\ months.t = "num" /\ months.n \in 1..12
                 THEN Ts(years.n, months.n, 1, 0, 0)
                 ELSE Null]
    ELSE <<>>

\* _date_bounds._parse_periodo: the first run of six digits of the text read
\* as %Y%m, on the period texts of the tables
_parse_periodo(series) ==
    [i \in DOMAIN series |->
        LET text == AsStr(series[i])
        IN  CASE text = "201001" -> Ts(2010, 1, 1, 0, 0)
              [] text = "202501" -> Ts(2025, 1, 1, 0, 0)
              [] text = "nan" -> Null]

\* pd.api.types.is_datetime64_any_dtype: a column of Timestamps; the column
\* of a frame built without rows has dtype object
is_datetime64_any_dtype(series) ==
    /\ series # <<>>
    /\ \A i \in DOMAIN series : series[i].t \in {"ts", "null"}
    /\ \E i \in DOMAIN series : series[i].t = "ts"

\* pd.to_datetime(series, errors="coerce") on a column of missing values
to_datetime(series) ==
    [i \in DOMAIN series |-> CASE series[i].t = "null" -> Null]

\* quality_checks._date_bounds: isoformat() of the least and of the greatest
\* date among the anio/mes parts and the date columns, None without any
_date_bounds(df) ==
    LET date_cols == SelectSeq(df.cols, IsDateColumn)
        date_from_parts == _dates_from_anio_mes(df)
        parsed == [k \in DOMAIN date_cols |->
                      IF is_datetime64_any_dtype(Series(df, date_cols[k]))
                      THEN Series(df, date_cols[k])
                      ELSE IF date_cols[k] = "periodo"
                      THEN _parse_periodo(Series(df, date_cols[k]))
                      ELSE to_datetime(Series(df, date_cols[k]))]
        date_candidates ==
            (IF date_from_parts # <<>> THEN <<date_from_parts>> ELSE <<>>) \o parsed
        stamps == {date_candidates[k][i] :
                      k \in DOMAIN date_candidates, i \in DOMAIN df.rows}
                  \ {Null}
        min_ts == CHOOSE t \in stamps : \A u \in stamps : t.n <= u.n
        max_ts == CHOOSE t \in stamps : \A u \in stamps : t.n >= u.n
    IN  IF date_cols = <<>> /\ ~({"anio", "mes"} \subseteq RangeOf(df.cols))
        THEN <<NoneId, NoneId>>
        ELSE IF stamps = {} THEN <<NoneId, NoneId>>
        ELSE <<min_ts.s, max_ts.s>>

\* quality_checks.check_basic_issues: the alerts of a frame
check_basic_issues(df, key_columns) ==
    LET key(i) == [k \in DOMAIN key_columns |-> df.rows[i][key_columns[k]]]
        duplicates == Cardinality({i \in DOMAIN df.rows :
                                     \E j \in 1..(i - 1) : key(j) = key(i)})
        nulls == Cardinality({ik \in (DOMAIN df.rows) \X (DOMAIN key_columns) :
                                 df.rows[ik[1]][key_columns[ik[2]]].t = "null"})
        number == {c \in RangeOf(df.cols) :
                     \A i \in DOMAIN df.rows : df.rows[i][c].t \in {"num", "null"}}
        negatives == \E c \in number, i \in DOMAIN df.rows :
                        df.rows[i][c].t = "num" /\ df.rows[i][c].n < 0
    IN  IF \E k \in DOMAIN key_columns : key_columns[k] \notin RangeOf(df.cols)
        THEN <<"columnas_no_detectadas">>
        ELSE IF df.rows = <<>>
        THEN <<"dataset_vacio">>
        ELSE (IF duplicates # 0 THEN <<"duplicados:" \o ToString(duplicates)>> ELSE <<>>)
             \o (IF nulls # 0 THEN <<"faltantes:" \o ToString(nulls)>> ELSE <<>>)
             \o (IF negatives THEN <<"valores_negativos">> ELSE <<>>)

\* the columns _quality_counters reads, as it reads them: isna() of
\* central_id and of cliente, astype(str) of central_raw and of cliente
CounterRows(df) ==
    [i \in DOMAIN df.rows |->
        [c \in RangeOf(df.cols) \cap {"central_id", "central_raw", "cliente"} |->
            IF df.rows[i][c].t = "null" /\ c # "central_raw"
            THEN NoneId
            ELSE AsStr(df.rows[i][c])]]

\* write_metadata: the entry of one dataset
DatasetMeta(name, df, keys) ==
    LET bounds == _date_bounds(df)
        meta == [filas |-> Len(df.rows), alertas |-> check_basic_issues(df, keys)]
        fechas == IF bounds[1] # NoneId \/ bounds[2] # NoneId
                  THEN [fecha_min |-> bounds[1], fecha_max |-> bounds[2]]
                  ELSE <<>>
    IN  Update(Update(meta, fechas), _quality_counters(name, CounterRows(df)))

\* the payload of write_metadata: the clock read when it is written, the
\* files the run read and one entry per table of datasets_info
MetadataPayload(now, files, datasets_info) ==
    [exists |-> TRUE,
     fecha_ejecucion |-> isoformat(now),
     archivos_leidos |-> record_file_info(files),
     datasets |-> [name \in DOMAIN datasets_info |->
                      DatasetMeta(name, datasets_info[name].df,
                                  datasets_info[name].keys)]]

\* write_metadata, then the success line of the log: the end of the try block
write_metadata ==
    /\ rpc = "write_metadata"
    /\ IF metafault
       THEN /\ rerror' = "metadata"
            /\ rpc' = "except"
            /\ UNCHANGED <<mart, metadata, rlog>>
       ELSE /\ mart' = mart \cup {"metadata.json"}
            /\ \E now \in RunInstants(RUN_CONTEXT.run_id) :
                  metadata' = MetadataPayload(now, files_read, datasets)
            /\ rlog' = record_etl_run(rlog, RUN_CONTEXT.run_id, "success",
                                      tables_rows, "")
            /\ rpc' = "exit0"
            /\ UNCHANGED rerror
    /\ UNCHANGED <<rcalls, rdone, files_read, datasets, tables_rows, rhint>>
    /\ RFrame

\* Variant: the except clause logs the failure and carries on with the next
\* normalizer
ExceptContinues ==
    /\ rpc = "except"
    /\ rhint' = TRUE
    /\ rlog' = record_etl_run(rlog, RUN_CONTEXT.run_id, "failed", tables_rows, rerror)
    /\ rpc' = IF Len(rcalls) < Len(Order) THEN Order[Len(rcalls) + 1] ELSE "exit1"
    /\ UNCHANGED <<rcalls, rdone, files_read, datasets, tables_rows, mart, metadata,
                   rerror>>
    /\ RFrame

\* main's except clause: the hint, the failed line of the log, SystemExit(1)
main_except ==
    /\ rpc = "except"
    /\ rhint' = TRUE
    /\ rlog' = record_etl_run(rlog, RUN_CONTEXT.run_id, "failed", tables_rows, rerror)
    /\ rpc' = "exit1"
    /\ UNCHANGED <<rcalls, rdone, files_read, datasets, tables_rows, mart, metadata,
                   rerror>>
    /\ RFrame

RNext ==
    \/ run_produccion
    \/ run_hidrologia
    \/ run_facturacion
    \/ run_contratos
    \/ run_balance_energia
    \/ write_metadata
    \/ main_except

InitRun == RInit /\ WIdle /\ MIdle /\ NIdle /\ HIdle /\ CIdle /\ XIdle

SpecRun == InitRun /\ [][RNext]_vars

\* OUTPUT_FILES: the file of a table
CsvFile(table) == table \o ".csv"

\* the fixed entries of OUTPUT_FILES that a complete run writes
FixedOutputs ==
    {"generacion_mensual", "hidro_volumen_mensual", "hidro_caudal_mensual",
     "represas_diario", "ventas_mensual_mwh", "ventas_mensual_soles",
     "ingresos_mensual", "precio_medio_mensual", "contratos_base",
     "contratos_riesgo"}

AllTables ==
    FixedOutputs \cup {"generacion_15min_202501", "balance_perfil_mensual",
                       "balance_r_mensual"}

\* the tables this run wrote to the data mart
WrittenTables == {t \in AllTables : CsvFile(t) \in mart}

\* metadata.json was written by this run (its fecha_ejecucion is a reading
\* of the clock during the run) and lists exactly these tables
SidecarOfThisRun(tables) ==
    /\ metadata.exists
    /\ metadata.fecha_ejecucion \in {isoformat(t) : t \in RunInstants(RUN_CONTEXT.run_id)}
    /\ DOMAIN metadata.datasets = tables

\* C19: after any run, finished in success or in failure, metadata.json has
\* been rewritten by that run and describes the tables the run wrote.
C19_SidecarAfterAnyRun ==
    rpc \in {"exit0", "exit1"} => SidecarOfThisRun(WrittenTables)

\* The same statement for the runs that end in success.
C19_SidecarAfterSuccess ==
    rpc = "exit0" =>
        /\ SidecarOfThisRun(WrittenTables)
        /\ \A t \in WrittenTables : metadata.datasets[t].filas = tables_rows[t]

C19_SidecarAfterSuccessWitness ==
    /\ rpc = "exit0"
    /\ "generacion_15min_202501" \in WrittenTables
    /\ metadata.datasets["generacion_15min_202501"].filas = 1

\* C20: when main() ends without aborting, the data mart holds every fixed
\* output file and metadata.json, and the sidecar lists those tables,
\* whatever sources were absent or empty.
C20_OutputContract ==
    rpc = "exit0" =>
        /\ \A t \in FixedOutputs : CsvFile(t) \in mart
        /\ "metadata.json" \in mart
        /\ metadata.exists
        /\ metadata.fecha_ejecucion
              \in {isoformat(t) : t \in RunInstants(RUN_CONTEXT.run_id)}
        /\ FixedOutputs \subseteq DOMAIN metadata.datasets

\* a run completed with no source file yielding rows
C20_Witness ==
    /\ rpc = "exit0"
    /\ \A s \in Sources : landing[s] \in {"absent", "empty"}
    /\ \A t \in FixedOutputs : metadata.datasets[t].filas = 0

----------------------------------------------------------------------------
(* The report date of the reservoir workbook (SpecDate):                   *)
(* hidrologia._try_parse_date_from_string, _extract_report_date_from_text  *)

\* A cell of the INFORMEDIARIO preview is NaN or a text.  A text is a
\* sequence of blank-separated pieces; a piece is a word or a date written
\* in one of the four forms the function searches for:
\*   1  "2024.12.10"                    2  "09.12.2025"
\*   3  "AL 11 DE DICIEMBRE DE 2025"    4  "12 DE DICIEMBRE 2025"
\* (form 0 is a word that matches no pattern).
Piece(form, y, mo, mes, d) == [form |-> form, y |-> y, mo |-> mo, mes |-> mes, d |-> d]

MONTHS_ES ==
    [m \in {"ENERO", "FEBRERO", "MARZO", "ABRIL", "MAYO", "JUNIO", "JULIO",
            "AGOSTO", "SETIEMBRE", "SEPTIEMBRE", "OCTUBRE", "NOVIEMBRE",
            "DICIEMBRE"} |->
        CASE m = "ENERO" -> 1 [] m = "FEBRERO" -> 2 [] m = "MARZO" -> 3
          [] m = "ABRIL" -> 4 [] m = "MAYO" -> 5 [] m = "JUNIO" -> 6
          [] m = "JULIO" -> 7 [] m = "AGOSTO" -> 8 [] m = "SETIEMBRE" -> 9
          [] m = "SEPTIEMBRE" -> 9 [] m = "OCTUBRE" -> 10
          [] m = "NOVIEMBRE" -> 11 [] OTHER -> 12]

NoDate == [isdate |-> FALSE, y |-> 0, mo |-> 0, d |-> 0]

\* pd.Timestamp(year=y, month=mo, day=d): raises unless the date exists
Timestamp(y, mo, d) ==
    LET leap == (y % 4 = 0 /\ y % 100 # 0) \/ y % 400 = 0
        days == CASE mo \in {4, 6, 9, 11} -> 30
                  [] mo = 2 -> IF leap THEN 29 ELSE 28
                  [] OTHER -> 31
    IN  IF mo \in 1..12 /\ d \in 1..days
        THEN [isdate |-> TRUE, y |-> y, mo |-> mo, d |-> d]
        ELSE NoDate

\* ts > best
Later(ts, best) ==
    \/ ts.y > best.y
    \/ ts.y = best.y /\ ts.mo > best.mo
    \/ ts.y = best.y /\ ts.mo = best.mo /\ ts.d > best.d

\* re.search(pattern of this form, up): the leftmost piece of the form, or 0
Search(form, text) ==
    LET at == {i \in 1..Len(text) : text[i].form = form}
    IN  IF at = {} THEN 0 ELSE CHOOSE i \in at : \A j \in at : i <= j

\* The date one pattern yields: only its leftmost match is looked at; a
\* match that is no date (or whose month word is not in MONTHS_ES) is
\* passed over and the next pattern is tried.
PatternDate(form, text) ==
    LET i == Search(form, text)
    IN  IF i = 0 THEN NoDate
        ELSE IF form \in {1, 2} THEN Timestamp(text[i].y, text[i].mo, text[i].d)
        ELSE IF text[i].mes \in DOMAIN MONTHS_ES
             THEN Timestamp(text[i].y, MONTHS_ES[text[i].mes], text[i].d)
             ELSE NoDate

_try_parse_date_from_string(s) ==
    IF s = <<>> THEN NoDate
    ELSE IF PatternDate(1, s).isdate THEN PatternDate(1, s)
    ELSE IF PatternDate(2, s).isdate THEN PatternDate(2, s)
    ELSE IF PatternDate(3, s).isdate THEN PatternDate(3, s)
    ELSE PatternDate(4, s)

\* the loop over preview.values.ravel(): best after the first n cells
RECURSIVE BestDate(_, _)
BestDate(cells, n) ==
    IF n = 0 THEN NoDate
    ELSE LET best == BestDate(cells, n - 1)
             v == cells[n]
             ts == IF v = NaN THEN NoDate ELSE _try_parse_date_from_string(v.text)
         IN  IF ts.isdate /\ (~best.isdate \/ Later(ts, best)) THEN ts ELSE best

\* the sheet INFORMEDIARIO cannot be opened
Unreadable == [readable |-> FALSE, cells |-> <<>>]

_extract_report_date_from_text(preview) ==
    IF ~preview.readable THEN NoDate
    ELSE BestDate(preview.cells, Len(preview.cells))

\* Inputs: the pieces a text is made of, and previews of two cells
Pieces ==
    { Piece(0, 0, 0, "EMBALSE", 0),
      Piece(1, 2024, 12, "", 10),
      Piece(1, 2026, 13, "", 1),
      Piece(2, 2025, 12, "", 9),
      Piece(3, 2025, 0, "DICIEMBRE", 11),
      Piece(4, 2025, 0, "DICIEMBRE", 12) }

ReportTexts == UNION {[1..n -> Pieces] : n \in 0..MaxPieces}

ReportCells == {NaN} \cup {[na |-> FALSE, text |-> t] : t \in ReportTexts}

Previews ==
    {Unreadable} \cup
    {[readable |-> TRUE, cells |-> <<a, b>>] : a \in ReportCells, b \in ReportCells}

DInit ==
    /\ fargs \in Previews
    /\ fret = NotReturned

DFrame == UNCHANGED <<wvars, rvars, mvars, nvars, hvars, cvars, gvars, fargs>>

\* _extract_report_date_from_text on a workbook whose sheet opens
ExtractReportDate ==
    /\ fret = NotReturned
    /\ fargs.readable
    /\ fret' = [returned |-> TRUE, value |-> _extract_report_date_from_text(fargs)]
    /\ DFrame

\* ... and on one whose sheet does not: the except branch returns None
ExtractFromUnreadable ==
    /\ fret = NotReturned
    /\ ~fargs.readable
    /\ fret' = [returned |-> TRUE, value |-> _extract_report_date_from_text(fargs)]
    /\ DFrame

DNext == ExtractReportDate \/ ExtractFromUnreadable

InitDate == DInit /\ CtxIdle /\ WIdle /\ RIdle /\ MIdle /\ NIdle /\ HIdle /\ CIdle /\ GIdle

SpecDate == InitDate /\ [][DNext]_vars

\* every date written in the preview, whatever its form and place
CandidateDates ==
    { ts \in { Timestamp(p.y, IF p.form \in {3, 4} /\ p.mes \in DOMAIN MONTHS_ES
                                THEN MONTHS_ES[p.mes] ELSE p.mo, p.d) :
               p \in UNION { {c.text[i] : i \in 1..Len(c.text)} :
                             c \in {fargs.cells[k] : k \in 1..Len(fargs.cells)} \ {NaN} } }
        : ts.isdate }

LatestCandidate(ts) ==
    IF CandidateDates = {} THEN ~ts.isdate
    ELSE /\ ts \in CandidateDates
         /\ \A c \in CandidateDates : ~Later(c, ts)

\* C21: the report date returned is the latest of all the dates that occur
\* in the preview, several dates in the text of one cell included.
C21_LatestOfAllDates ==
    (fret.returned /\ fargs.readable) => LatestCandidate(fret.value)

\* The same statement for previews whose cells hold at most one date each.
C21_LatestOfCells ==
    (/\ fret.returned
     /\ fargs.readable
     /\ \A k \in 1..Len(fargs.cells) :
            fargs.cells[k] # NaN =>
                Cardinality({i \in 1..Len(fargs.cells[k].text) :
                                fargs.cells[k].text[i].form # 0}) <= 1)
        => LatestCandidate(fret.value)

\* two cells with one date each, the later one in the first cell
C21_LatestOfCellsWitness ==
    /\ fret.returned
    /\ fargs.readable
    /\ fargs.cells[1] = [na |-> FALSE, text |-> <<Piece(3, 2025, 0, "DICIEMBRE", 11)>>]
    /\ fargs.cells[2] = [na |-> FALSE, text |-> <<Piece(1, 2024, 12, "", 10)>>]
    /\ fret.value = Timestamp(2025, 12, 11)

----------------------------------------------------------------------------
(* The composite header of a 15-minute workbook (SpecColumns):             *)
(* produccion._process_15min up to the records of its data columns; the    *)
(* partitions built from those records are the subject of Norm15min.       *)

\* str.replace(old, new): left to right, without overlap
RECURSIVE Replace(_, _, _)
Replace(t, old, new) ==
    IF Len(t) < Len(old) THEN t
    ELSE IF SubSeq(t, 1, Len(old)) = old
         THEN new \o Replace(SubSeq(t, Len(old) + 1, Len(t)), old, new)
         ELSE <<Head(t)>> \o Replace(Tail(t), old, new)

\* str.strip(" ."): blanks and dots removed at both ends
RECURSIVE strip_chars(_)
strip_chars(t) ==
    IF t # <<>> /\ Head(t) \in {" ", "."} THEN strip_chars(Tail(t))
    ELSE IF t # <<>> /\ t[Len(t)] \in {" ", "."}
         THEN strip_chars(SubSeq(t, 1, Len(t) - 1))
         ELSE t

_is_empty_header(x) ==
    \/ x.na
    \/ strip(x.text) = <<>>
    \/ LET sl == lower(strip(x.text))
       IN  \/ sl \in {<<"n", "a", "n">>, <<"n", "o", "n", "e">>}
           \/ /\ Len(sl) >= 7
              /\ SubSeq(sl, 1, 7) = <<"u", "n", "n", "a", "m", "e", "d">>

\* '' for an empty header, else the text with its blanks normalized
_clean_header_str(x) ==
    IF _is_empty_header(x) THEN <<>> ELSE squeeze(strip(x.text))

\* re.search(r"(CHARCANI|CH)\s*(I{1,3}|IV|V|VI|1|2|3|4|5|6)", text): group 2
\* of the leftmost match, or <<>>.  The alternatives are tried in order, so
\* a numeral that starts with I is taken by I{1,3} and one that starts with
\* V by V.
RECURSIVE CharcaniNumeral(_)
CharcaniNumeral(text) ==
    LET Numeral(t) ==
            LET u == lstrip(t)
                HasAt(pre) == Len(u) >= Len(pre) /\ SubSeq(u, 1, Len(pre)) = pre
            IN  IF HasAt(<<"I", "I", "I">>) THEN <<"I", "I", "I">>
                ELSE IF HasAt(<<"I", "I">>) THEN <<"I", "I">>
                ELSE IF HasAt(<<"I">>) THEN <<"I">>
                ELSE IF HasAt(<<"V">>) THEN <<"V">>
                ELSE IF u # <<>> /\ Head(u) \in {"1", "2", "3", "4", "5", "6"}
                     THEN <<Head(u)>>
                     ELSE <<>>
        After(pre) ==
            IF Len(text) >= Len(pre) /\ SubSeq(text, 1, Len(pre)) = pre
            THEN Numeral(SubSeq(text, Len(pre) + 1, Len(text)))
            ELSE <<>>
        long == After(<<"C", "H", "A", "R", "C", "A", "N", "I">>)
        short == After(<<"C", "H">>)
    IN  IF text = <<>> THEN <<>>
        ELSE IF long # <<>> THEN long
        ELSE IF short # <<>> THEN short
        ELSE CharcaniNumeral(Tail(text))

roman_map(numeral) ==
    CASE numeral = <<"1">> -> <<"I">>
      [] numeral = <<"2">> -> <<"I", "I">>
      [] numeral = <<"3">> -> <<"I", "I", "I">>
      [] numeral = <<"4">> -> <<"I", "V">>
      [] numeral = <<"5">> -> <<"V">>
      [] numeral = <<"6">> -> <<"V", "I">>
      [] OTHER -> numeral

\* the placeholder returned for a label of which nothing is left
CENTRAL == <<"C", "E", "N", "T", "R", "A", "L">>

\* the text of _normalize_central_label before its "or" fallback
HomologatedText(label) ==
    LET CHARCANI_ == <<"C", "H", "A", "R", "C", "A", "N", "I", " ">>
        CT_ == <<"C", ".", "T", ".", " ">>
        t0 == [i \in DOMAIN label |-> UpperChar(label[i])]
        t1 == Replace(Replace(t0, <<"C", ".", "H", ".">>, CHARCANI_),
                      <<"C", " ", "H">>, CHARCANI_)
        t2 == Replace(Replace(Replace(t1, <<"C", ".", "T", ".">>, CT_),
                              <<"C", "T", ".">>, CT_),
                      <<"C", "T", " ">>, CT_)
        t3 == Replace(t2, <<"C", ".", "T">>, <<"C", ".", "T", ".">>)
        text == strip_chars(squeeze(t3))
        numeral == CharcaniNumeral(text)
    IN  IF numeral # <<>>
        THEN <<"C", "H", "A", "R", "C", "A", "N", "I", " ">> \o roman_map(numeral)
        ELSE IF Contains(text, <<"C", "H", "I", "L", "I", "N", "A">>)
        THEN <<"C", ".", "T", ".", " ", "C", "H", "I", "L", "I", "N", "A">>
        ELSE IF Contains(text, <<"P", "I", "S", "C", "O">>)
        THEN <<"C", ".", "T", ".", " ", "P", "I", "S", "C", "O">>
        ELSE IF Contains(text, <<"M", "O", "L", "L", "E", "N", "D", "O">>)
        THEN <<"C", ".", "T", ".", " ", "M", "O", "L", "L", "E", "N", "D", "O">>
        ELSE text

_normalize_central_label(label) ==
    IF HomologatedText(label) = <<>> THEN CENTRAL ELSE HomologatedText(label)

_clean_unidad_label(label) ==
    LET t1 == Replace(Replace(label, <<"-", "k", "W", "h">>, <<>>),
                      <<"k", "W", "h">>, <<>>)
        t2 == strip([i \in DOMAIN t1 |-> IF t1[i] \in {"-", "_"} THEN " " ELSE t1[i]])
        blanks == {i \in DOMAIN t2 : t2[i] = " "}
        first == IF blanks = {} THEN t2
                 ELSE SubSeq(t2, 1, (CHOOSE i \in blanks : \A j \in blanks : i <= j) - 1)
    IN  IF first = <<>> THEN <<"U", "1">> ELSE first

\* CENTRALES_DEFAULT: (central_id, central_nombre)
CENTRALES_DEFAULT ==
    << <<"CH1", <<"C", "H", "A", "R", "C", "A", "N", "I", " ", "I">>>>,
       <<"CH2", <<"C", "H", "A", "R", "C", "A", "N", "I", " ", "I", "I">>>>,
       <<"CH3", <<"C", "H", "A", "R", "C", "A", "N", "I", " ", "I", "I", "I">>>>,
       <<"CH4", <<"C", "H", "A", "R", "C", "A", "N", "I", " ", "I", "V">>>>,
       <<"CH5", <<"C", "H", "A", "R", "C", "A", "N", "I", " ", "V">>>>,
       <<"CH6", <<"C", "H", "A", "R", "C", "A", "N", "I", " ", "V", "I">>>>,
       <<"CT1", <<"C", ".", "T", ".", " ", "C", "H", "I", "L", "I", "N", "A">>>>,
       <<"CT2", <<"C", ".", "T", ".", " ", "P", "I", "S", "C", "O">>>>,
       <<"CT3", <<"C", ".", "T", ".", " ", "M", "O", "L", "L", "E", "N", "D", "O">>>> >>

\* load_centrales_reference on the file ensure_centrales_reference creates:
\* central_nombre_norm is the normalized name
load_centrales_reference ==
    [i \in DOMAIN CENTRALES_DEFAULT |->
        RefRow(normalize_text_chars(CENTRALES_DEFAULT[i][2]), CENTRALES_DEFAULT[i][1])]

\* cleaned_row: the group row filled forward over its empty cells (column 0,
\* the time column, is not part of these sequences)
RECURSIVE cleaned_row(_, _)
cleaned_row(raw_central_row, n) ==
    IF n = 0 THEN <<>>
    ELSE LET before == cleaned_row(raw_central_row, n - 1)
             g == _clean_header_str(raw_central_row[n])
             last_value == IF n = 1 THEN <<>> ELSE before[n - 1]
         IN  Append(before, IF g # <<>> THEN g ELSE last_value)

\* f"col_{idx}"
ColName(idx) == <<"c", "o", "l", "_", <<"1", "2", "3", "4">>[idx]>>

\* col_info of data column idx (1-based after the time column)
col_info(raw_central_row, unidad_row, idx) ==
    LET central_label == cleaned_row(raw_central_row, Len(raw_central_row))[idx]
        unidad_header == _clean_header_str(unidad_row[idx])
        unidad_label == IF unidad_header = <<>> THEN ColName(idx) ELSE unidad_header
    IN  IF central_label = <<>>
        THEN [col |-> idx, tipo |-> "ignorar", central |-> <<>>,
              central_raw |-> <<>>, unidad |-> unidad_label]
        ELSE [col |-> idx, tipo |-> "dato",
              central |-> _normalize_central_label(central_label),
              central_raw |-> central_label \o <<" ", "|", " ">> \o unidad_label,
              unidad |-> _clean_unidad_label(unidad_label)]

\* Inputs: group cells, unit cells and one row of readings
GroupCells ==
    { NaN,
      Text(<<" ">>),
      Text(<<"U", "n", "n", "a", "m", "e", "d", ":", " ", "2">>),
      Text(<<".">>),
      Text(<<"C", ".", "H", ".", " ", "4">>),
      Text(<<"P", "i", "s", "c", "o">>) }

UnidadCells == {NaN, Text(<<"G", "1", "-", "k", "W", "h">>)}

Reading(n) == [na |-> FALSE, num |-> n]
Readings == {[na |-> TRUE, num |-> 0], Reading(2000), Reading(0 - 1000)}

\* map_central_id(tmp, centrales_df, source_col="central") with the default
\* reference: the id of each distinct name, matched once
Centrals15 ==
    {_normalize_central_label(squeeze(strip(g.text))) :
        g \in {c \in GroupCells : ~_is_empty_header(c)}}

CentralIds15 ==
    [c \in Centrals15 |->
        _match(normalize_text_chars(c), load_centrales_reference, EmptyCache).id]

map_central_id15(central) == CentralIds15[central]

\* records: one row per data column whose value of the (single) data row is
\* a number >= 0, in column order, the energy converted from kWh to MWh and
\* central_id mapped from the entity reference
RECURSIVE records15(_, _)
records15(sheet, n) ==
    IF n = 0 THEN <<>>
    ELSE LET info == col_info(sheet.central_row, sheet.unidad_row, n)
             v == sheet.data[n]
             before == records15(sheet, n - 1)
         IN  IF info.tipo = "dato" /\ ~v.na /\ v.num >= 0
             THEN Append(before, [col |-> n, central |-> info.central,
                                  central_raw |-> info.central_raw,
                                  unidad |-> info.unidad,
                                  energia_mwh |-> v.num \div 1000,
                                  central_id |-> map_central_id15(info.central)])
             ELSE before

\* df_all.sort_values(["fecha_hora", "central", "unidad"]): all the rows
\* carry the timestamp of the one data row
Sorted15(df_all) ==
    sort_values(df_all,
                [i \in DOMAIN df_all |->
                   <<Cardinality({j \in DOMAIN df_all :
                                     TextLess(df_all[j].central, df_all[i].central)}),
                     Cardinality({j \in DOMAIN df_all :
                                     TextLess(df_all[j].unidad, df_all[i].unidad)})>>])

\* df_part.drop_duplicates(subset=["fecha_hora", "central_id", "unidad"])
Unique15(df_part) ==
    drop_duplicates(df_part,
                    [i \in DOMAIN df_part |-> <<df_part[i].central_id, df_part[i].unidad>>],
                    "first")

\* _process_15min from the records on: the one partition it returns (the
\* columns fecha_hora and periodo, the same in every row, are not carried)
particiones(records) == Unique15(Sorted15(records))

\* the columns named in the warning "Columnas 15min ignoradas ..."
ignored(sheet) ==
    {n \in 1..Len(sheet.central_row) :
        col_info(sheet.central_row, sheet.unidad_row, n).tipo = "ignorar"}

\* the sheets: up to MaxColumns data columns
Sheets15 ==
    UNION { [central_row : [1..n -> GroupCells], unidad_row : [1..n -> UnidadCells],
             data : [1..n -> Readings]] : n \in 1..MaxColumns }

KInit ==
    /\ fargs \in Sheets15
    /\ fret = NotReturned

KFrame == UNCHANGED <<wvars, rvars, mvars, nvars, hvars, cvars, gvars, fargs>>

\* _process_15min on a sheet with data columns that yield rows: the rows
\* sorted and without the later rows of a repeated key
Process15minColumns ==
    /\ fret = NotReturned
    /\ records15(fargs, Len(fargs.central_row)) # <<>>
    /\ fret' = [returned |-> TRUE,
                records |-> particiones(records15(fargs, Len(fargs.central_row))),
                warned |-> ignored(fargs)]
    /\ KFrame

\* ... and on a sheet none of whose columns yields a row: "return {}"
Process15minNoRecords ==
    /\ fret = NotReturned
    /\ records15(fargs, Len(fargs.central_row)) = <<>>
    /\ fret' = [returned |-> TRUE, records |-> <<>>, warned |-> ignored(fargs)]
    /\ KFrame

KNext == Process15minColumns \/ Process15minNoRecords

InitColumns == KInit /\ CtxIdle /\ WIdle /\ RIdle /\ MIdle /\ NIdle /\ HIdle /\ CIdle /\ GIdle

SpecColumns == InitColumns /\ [][KNext]_vars

\* the group label that governs data column n: the nearest non-empty group
\* cell at or to the left of the column, or <<>> when there is none
GroupLabelOf(n) ==
    LET at == {k \in 1..n : ~_is_empty_header(fargs.central_row[k])}
    IN  IF at = {} THEN <<>>
        ELSE squeeze(strip(fargs.central_row[CHOOSE k \in at : \A j \in at : j <= k].text))

\* a column is resolvable when its group label leaves an entity name
Resolvable(n) == GroupLabelOf(n) # <<>> /\ HomologatedText(GroupLabelOf(n)) # <<>>

\* C22: every data column without a resolvable entity label is left out of
\* the output, with a warning, and no output row carries a placeholder label
\* that does not come from a group label of the source.
C22_NoFabricatedLabel ==
    fret.returned =>
        /\ \A i \in 1..Len(fret.records) :
              /\ Resolvable(fret.records[i].col)
              /\ fret.records[i].central = HomologatedText(GroupLabelOf(fret.records[i].col))
        /\ \A n \in 1..Len(fargs.central_row) : ~Resolvable(n) => n \in fret.warned

\* The part about the columns that have no group label even after the fill.
C22_UnlabelledColumnsDropped ==
    fret.returned =>
        \A n \in 1..Len(fargs.central_row) :
            GroupLabelOf(n) = <<>> =>
                /\ n \in fret.warned
                /\ \A i \in 1..Len(fret.records) : fret.records[i].col # n

\* a sheet whose first column has no group label and whose second has one
C22_UnlabelledColumnsDroppedWitness ==
    /\ fret.returned
    /\ Len(fargs.central_row) = 2
    /\ GroupLabelOf(1) = <<>>
    /\ fret.warned = {1}
    /\ Len(fret.records) = 1
    /\ fret.records[1].col = 2
    /\ fret.records[1].central = <<"C", "H", "A", "R", "C", "A", "N", "I", " ", "I", "V">>

----------------------------------------------------------------------------
(* One sheet of the production history with the entity reference           *)
(* (SpecHistorico): produccion._process_historico, run_produccion          *)

\* f"{int(r['anio'])}{int(r['mes']):02d}"
PeriodoOf(anio, mes) ==
    ToString(anio) \o (IF mes < 10 THEN "0" ELSE "") \o ToString(mes)

\* df_melt of the sheet of a year whose columns are CENTRAL and ENERO, up to
\* the projection appended to frames: rows without a central dropped, the
\* energy converted from kWh to MWh, central_id mapped, rows whose
\* central_id is None dropped
\* the row appended for a sheet row r whose label was mapped to id (none
\* when the label is missing or unmapped)
HistoricoRow(year, r, id) ==
    IF r.CENTRAL.na \/ id = NoneId THEN <<>>
    ELSE <<[central_id |-> id, central |-> r.CENTRAL.text,
            anio |-> year, mes |-> 1,
            periodo |-> PeriodoOf(year, 1),
            energia_mwh |-> IF r.ENERO.na THEN r.ENERO
                            ELSE Reading(r.ENERO.num \div 1000)]>>

\* the rows of the sheet appended to frames, in sheet order
RECURSIVE HistoricoRows(_, _, _, _)
HistoricoRows(year, df_sheet, centrales_df, n) ==
    IF n = 0 THEN <<>>
    ELSE HistoricoRows(year, df_sheet, centrales_df, n - 1)
         \o HistoricoRow(year, df_sheet[n],
                IF centrales_df = <<>> THEN NoneId
                ELSE _match(normalize_text_chars(astype_str(df_sheet[n].CENTRAL)),
                            centrales_df, EmptyCache).id)

\* df_melt.dropna(subset=["central"]) leaves no row: every CENTRAL cell of
\* the sheet is NaN
MeltWithoutRows(df_sheet) ==
    df_sheet # <<>> /\ \A i \in DOMAIN df_sheet : df_sheet[i].CENTRAL.na

\* The body of the loop for one sheet.  On a df_melt without rows,
\* df_melt.apply(..., axis=1) gives a frame of six columns and its
\* assignment to the single column "periodo" raises ValueError; nothing
\* catches it.
HistoricoSheet(year, df_sheet, centrales_df) ==
    IF MeltWithoutRows(df_sheet)
    THEN [raised |-> "ValueError", rows |-> <<>>]
    ELSE [raised |-> "", rows |-> HistoricoRows(year, df_sheet, centrales_df, Len(df_sheet))]

\* sort_values(["periodo", "central"]) on the rows of one period
HistoricoSorted(full) ==
    sort_values(full,
                [i \in DOMAIN full |->
                   <<Cardinality({j \in DOMAIN full :
                                     TextLess(full[j].central, full[i].central)})>>])

\* drop_duplicates(subset=["periodo", "central", "central_id"])
HistoricoUnique(sorted) ==
    drop_duplicates(sorted,
                    [i \in DOMAIN sorted |->
                        <<sorted[i].periodo, sorted[i].central, sorted[i].central_id>>],
                    "first")

\* the end of _process_historico, from "if frames:" on
HistoricoResult(sheet) ==
    IF sheet.raised # ""
    THEN [returned |-> FALSE, raised |-> sheet.raised, value |-> <<>>]
    ELSE [returned |-> TRUE, raised |-> "",
          value |-> HistoricoUnique(HistoricoSorted(sheet.rows))]

\* _process_historico on a workbook with that one sheet: the exception of
\* the sheet, or the rows sorted by (periodo, central) and deduplicated on
\* (periodo, central, central_id)
_process_historico(year, df_sheet, centrales_df) ==
    HistoricoResult(HistoricoSheet(year, df_sheet, centrales_df))

\* Inputs: the labels and readings of the sheet "2010", and the reference
\* (the default one, or none when the file is not found)
HistoricoLabels ==
    { NaN,
      Text(<<"C", "H", "1">>),
      Text(<<"C", "h", "a", "r", "c", "a", "n", "i", " ", "I">>),
      Text(<<"C", "H", "A", "R", "C", "A", "N", "I", " ", "1">>) }

HistoricoSheets ==
    SeqsUpTo([CENTRAL : HistoricoLabels,
              ENERO : {[na |-> TRUE, num |-> 0], Reading(1000), Reading(2000)}],
             MaxSheetRows)

PInit ==
    /\ fargs \in [year : {2010}, df_sheet : HistoricoSheets,
                  centrales_df : {<<>>, load_centrales_reference}]
    /\ fret = NotReturned

PFrame == UNCHANGED <<wvars, rvars, mvars, nvars, hvars, cvars, gvars, fargs>>

\* _process_historico when the sheet has rows: it returns the table, or
\* the ValueError of a sheet without any CENTRAL label leaves it
ProcessHistorico ==
    /\ fret = NotReturned
    /\ fargs.df_sheet # <<>>
    /\ fret' = _process_historico(fargs.year, fargs.df_sheet, fargs.centrales_df)
    /\ PFrame

\* ... and when it has none ("Hoja sin datos"): the empty frame
ProcessHistoricoEmptySheet ==
    /\ fret = NotReturned
    /\ fargs.df_sheet = <<>>
    /\ fret' = _process_historico(fargs.year, fargs.df_sheet, fargs.centrales_df)
    /\ PFrame

PNext == ProcessHistorico \/ ProcessHistoricoEmptySheet

InitHistorico == PInit /\ CtxIdle /\ WIdle /\ RIdle /\ MIdle /\ NIdle /\ HIdle /\ CIdle /\ GIdle

SpecHistorico == InitHistorico /\ [][PNext]_vars

\* the workbook of the scenario: sheet "2010", one row ["CH1", 1000]
ScenarioA(label) ==
    /\ fargs.year = 2010
    /\ fargs.df_sheet = <<[CENTRAL |-> Text(label), ENERO |-> Reading(1000)]>>
    /\ fargs.centrales_df = load_centrales_reference

OneRowCH1 ==
    /\ Len(fret.value) = 1
    /\ fret.value[1].central_id = "CH1"
    /\ fret.value[1].periodo = "201001"
    /\ fret.value[1].energia_mwh = Reading(1)

\* C23: the sheet "2010" with the single row ["CH1", 1000] and the default
\* entity reference gives exactly one row: central_id "CH1", periodo
\* "201001", energia_mwh 1.0.
C23_ScenarioA ==
    (fret.returned /\ ScenarioA(<<"C", "H", "1">>)) => OneRowCH1

\* The same sheet with the entity written by its name, "Charcani I".
C23_ScenarioByName ==
    (fret.returned /\ ScenarioA(<<"C", "h", "a", "r", "c", "a", "n", "i", " ", "I">>))
        => OneRowCH1

C23_ScenarioByNameWitness ==
    /\ fret.returned
    /\ ScenarioA(<<"C", "h", "a", "r", "c", "a", "n", "i", " ", "I">>)
    /\ OneRowCH1

----------------------------------------------------------------------------
(* Sheets whose structure cannot be located (SpecSheets):                  *)
(* produccion._process_historico and the sales sheets of run_facturacion   *)

\* What a sheet of a workbook is to its normalizer:
\*   "ok"         header, id column and month columns found, one data row
\*   "empty"      no data below the detected header
\*   "no_central" no CENTRAL column (history workbook only)
\*   "no_months"  no month column
\*   "error"      reading the sheet raises (the workbook has no sheet of
\*                that name, or the sheet cannot be read)
Unparseable == {"no_central", "no_months"}

\* the year sheets of a history workbook; the loop reads the year of a
\* sheet from the first four characters of its name
YearSheets == <<"2010", "2010 B", "2011">>

\* int(str(sheet).strip()[:4])
SheetYear(sheet) == IF sheet = "2011" THEN 2011 ELSE 2010

\* df_melt of a sheet "ok": the one line CHARCANI I with ENERO = 1000
OkFrame(year) ==
    <<[central_id |-> "CH1", central |-> "CHARCANI I", anio |-> year, mes |-> 1,
       periodo |-> HistoricoPeriodo[year - 2009], energia_mwh |-> 1]>>

\* _process_historico over the year sheets of the workbook, in order: the
\* first sheet whose read raises ends the call with that exception; a sheet
\* without data or structure is logged and passed over
RECURSIVE HistoricoFrames(_, _, _)
HistoricoFrames(sheets, names, n) ==
    IF n = 0 THEN [raised |-> "", context |-> FALSE, frames |-> <<>>, logged |-> {}]
    ELSE LET before == HistoricoFrames(sheets, names, n - 1)
         IN  IF before.raised # "" THEN before
             ELSE IF sheets[n] = "error"
             THEN [before EXCEPT !.raised = "Exception", !.frames = <<>>]
             ELSE IF sheets[n] = "ok"
             THEN [before EXCEPT !.frames = @ \o OkFrame(SheetYear(names[n]))]
             ELSE [before EXCEPT !.logged = @ \cup {n}]

\* the end of _process_historico: concat, sort_values and drop_duplicates
\* of the frames; rows is the length of the table returned
HistoricoTable(read) ==
    [raised |-> read.raised, context |-> read.context,
     rows |-> Len(process_historico(read.frames)), logged |-> read.logged]

\* _parse_sales of one sales sheet inside the try block of run_facturacion:
\* an exception becomes a ValueError that names the sheet and the file
ParseSalesSheet(status) ==
    CASE status = "error" -> [raised |-> "ValueError", context |-> TRUE, rows |-> 0, logged |-> FALSE]
      [] status = "no_months" -> [raised |-> "", context |-> FALSE, rows |-> 0, logged |-> TRUE]
      [] status = "empty" -> [raised |-> "", context |-> FALSE, rows |-> 0, logged |-> FALSE]
      [] OTHER -> [raised |-> "", context |-> FALSE, rows |-> 1, logged |-> FALSE]

\* the two sales sheets, "VENTAS (MWh)" then "VENTAS (S)": the warning of
\* the first sheet has been logged when the second raises
SalesFrames(sheets) ==
    LET mwh == ParseSalesSheet(sheets[1])
        soles == ParseSalesSheet(sheets[2])
    IN  IF mwh.raised # ""
        THEN [raised |-> mwh.raised, context |-> TRUE, rows |-> 0, logged |-> {}]
        ELSE IF soles.raised # ""
        THEN [raised |-> soles.raised, context |-> TRUE, rows |-> 0,
              logged |-> {i \in {1} : mwh.logged}]
        ELSE [raised |-> "", context |-> FALSE, rows |-> mwh.rows + soles.rows,
              logged |-> {i \in {1, 2} : ParseSalesSheet(sheets[i]).logged}]

\* the sheet "Ingresos" (sheets.ingresos of the default configuration)
\* inside its try block: _read_with_header, then _parse_ingresos
ParseIngresosSheet(status) ==
    CASE status = "error" -> [raised |-> "ValueError", context |-> TRUE, rows |-> 0, logged |-> FALSE]
      [] status = "no_months" -> [raised |-> "", context |-> FALSE, rows |-> 0, logged |-> TRUE]
      [] status = "empty" -> [raised |-> "", context |-> FALSE, rows |-> 0, logged |-> FALSE]
      [] OTHER -> [raised |-> "", context |-> FALSE, rows |-> 1, logged |-> FALSE]

\* the three try blocks of run_facturacion: the sales sheets, then the
\* sheet of the revenues; the warnings of the sheets before the one that
\* raises have been logged
BillingFrames(sheets) ==
    IF SalesFrames(sheets).raised # "" THEN SalesFrames(sheets)
    ELSE IF ParseIngresosSheet(sheets[3]).raised # ""
    THEN [raised |-> ParseIngresosSheet(sheets[3]).raised, context |-> TRUE,
          rows |-> 0, logged |-> SalesFrames(sheets).logged]
    ELSE [SalesFrames(sheets) EXCEPT
            !.rows = @ + ParseIngresosSheet(sheets[3]).rows,
            !.logged = @ \cup {i \in {3} : ParseIngresosSheet(sheets[3]).logged}]

\* validate_and_write of ventas_mwh, of ventas_soles, then of ingresos: the
\* frame of a sheet "ok" is what its parser returned (precio_medio has no
\* schema)
SalesValidation(sheets, strict) ==
    /\ strict
    /\ \/ SchemaFails(ventas_mensual_mwh,
                      ventas("mwh", ParseSalesSheet(sheets[1]).rows))
       \/ SchemaFails(ventas_mensual_soles,
                      ventas("soles", ParseSalesSheet(sheets[2]).rows))
       \/ SchemaFails(ingresos_mensual,
                      ingresos(ParseIngresosSheet(sheets[3]).rows))

\* Inputs: a found workbook of a source, its "required" flag, its sheets
\* and their names
Workbooks ==
    UNION {[source : {"produccion_historica"}, required : BOOLEAN,
            sheets : [1..n -> {"ok", "empty", "no_central", "no_months", "error"}],
            names : {nm \in [1..n -> RangeOf(YearSheets)] :
                        \A i, j \in 1..n : nm[i] = nm[j] => i = j}] :
              n \in 1..MaxSheets}
    \cup
    [source : {"facturacion"}, required : BOOLEAN,
     sheets : [1..3 -> {"ok", "empty", "no_months", "error"}],
     names : {<<"VENTAS (MWh)", "VENTAS (S)", "Ingresos">>}]

SInit ==
    /\ fargs \in Workbooks
    /\ RUN_CONTEXT \in RunContexts
    /\ fret = NotReturned

SFrame == UNCHANGED <<wvars, rvars, mvars, nvars, hvars, cvars, gvars, fargs>>

\* run_produccion on the history workbook: the flag "required" of the
\* source is not consulted
HistoricoWorkbook ==
    /\ fret = NotReturned
    /\ fargs.source = "produccion_historica"
    /\ fret' = [returned |-> TRUE,
                result |-> HistoricoTable(HistoricoFrames(fargs.sheets, fargs.names,
                                                          Len(fargs.sheets)))]
    /\ SFrame

\* run_facturacion on the billing workbook: "required" only matters when no
\* file is found; in strict mode a sales frame with rows fails its schema
\* and validate_and_write raises
FacturacionWorkbook ==
    /\ fret = NotReturned
    /\ fargs.source = "facturacion"
    /\ fret' = [returned |-> TRUE,
                result |->
                    IF /\ BillingFrames(fargs.sheets).raised = ""
                       /\ SalesValidation(fargs.sheets, RUN_CONTEXT.strict)
                    THEN [BillingFrames(fargs.sheets) EXCEPT
                              !.raised = "SchemaErrors", !.rows = 0]
                    ELSE BillingFrames(fargs.sheets)]
    /\ SFrame

SNext == HistoricoWorkbook \/ FacturacionWorkbook

InitSheets == SInit /\ WIdle /\ RIdle /\ MIdle /\ NIdle /\ HIdle /\ CIdle /\ GIdle

SpecSheets == InitSheets /\ [][SNext]_vars

Sheet(i) == fargs.sheets[i]

\* the sheets that parse
OkSheets == {i \in DOMAIN fargs.sheets : Sheet(i) = "ok"}

\* the rows the sheets that parse give to the tables: the line of each year
\* of the history workbook, one row per sheet of the billing workbook
SheetRows ==
    IF fargs.source = "produccion_historica"
    THEN Cardinality({SheetYear(fargs.names[i]) : i \in OkSheets})
    ELSE Cardinality(OkSheets)

\* C24: a sheet that opens but whose structure cannot be located is logged
\* and skipped without aborting, unless it is the only sheet of a required
\* source: then the normalizer raises an error with added context, so that
\* a required source never yields an empty table in silence.  (A run that
\* ends in the schema validation of the parsed frames is left aside.)
C24_OnlySheetEscalates ==
    (fret.returned /\ fret.result.raised # "SchemaErrors") =>
        IF fargs.required /\ Len(fargs.sheets) = 1 /\ Sheet(1) \in Unparseable
        THEN fret.result.raised # "" /\ fret.result.context
        ELSE (\A i \in DOMAIN fargs.sheets : Sheet(i) # "error")
                => fret.result.raised = ""

\* The part that does not depend on the flag: unparseable sheets are logged
\* and skipped, and the sheets that parse give the rows of the table.
C24_UnparseableSkipped ==
    (/\ fret.returned
     /\ fret.result.raised # "SchemaErrors"
     /\ \A i \in DOMAIN fargs.sheets : Sheet(i) # "error") =>
        /\ fret.result.raised = ""
        /\ {i \in DOMAIN fargs.sheets : Sheet(i) \in Unparseable} \subseteq fret.result.logged
        /\ fret.result.rows = SheetRows

\* a history workbook with an unparseable sheet followed by a good one
C24_UnparseableSkippedWitness ==
    /\ fret.returned
    /\ fargs.source = "produccion_historica"
    /\ fargs.sheets = <<"no_central", "ok">>
    /\ fret.result.logged = {1}
    /\ fret.result.rows = 1

----------------------------------------------------------------------------
(* Period codes of the dashboard filters (SpecPeriodo):                    *)
(* utils/filters.ensure_periodo_str                                        *)

\* A value of the period column: a Python int, a float, NaN or a str; text
\* is what str() gives for it
PInt(text) == [kind |-> "int", text |-> text]
PFloat(text) == [kind |-> "float", text |-> text]
PNaN == [kind |-> "nan", text |-> <<"n", "a", "n">>]
PStr(text) == [kind |-> "str", text |-> text]

\* pd.api.types.is_numeric_dtype(out[col_periodo]): the column holds numbers
\* (and NaN) only
is_numeric_dtype(column) ==
    \A i \in DOMAIN column : column[i].kind \in {"int", "float", "nan"}

\* str.replace(r"\.0$", "", regex=True)
RemoveDotZero(t) ==
    IF Len(t) >= 2 /\ SubSeq(t, Len(t) - 1, Len(t)) = <<".", "0">>
    THEN SubSeq(t, 1, Len(t) - 2)
    ELSE t

\* the strip, the replace and the padding of a text of length 5
CleanPeriodo(t) ==
    LET cleaned == RemoveDotZero(strip(t))
    IN  IF Len(cleaned) = 5 THEN <<"0">> \o cleaned ELSE cleaned

\* .astype("Int64").astype(str) of a value of a numeric column: a float
\* with a fractional part cannot be cast; NaN becomes <NA>
Int64Text(v) ==
    CASE v.kind = "nan" -> <<"<", "N", "A", ">">>
      [] v.kind = "float" -> RemoveDotZero(v.text)
      [] OTHER -> v.text

CastRaises(column) ==
    /\ is_numeric_dtype(column)
    /\ \E i \in DOMAIN column :
          column[i].kind = "float" /\ RemoveDotZero(column[i].text) = column[i].text

\* ensure_periodo_str(df, "periodo") on a non-empty table that has the
\* column: the values of the column returned
ensure_periodo_str(column) ==
    IF is_numeric_dtype(column)
    THEN [i \in DOMAIN column |-> PStr(CleanPeriodo(Int64Text(column[i])))]
    ELSE [i \in DOMAIN column |-> PStr(CleanPeriodo(column[i].text))]

\* Inputs
PeriodoValues ==
    { PInt(<<"2", "0", "2", "5", "0", "1">>), PInt(<<"2", "5", "0", "0", "4">>),
      PFloat(<<"2", "0", "2", "5", "0", "3", ".", "0">>), PFloat(<<"2", "0", "2", "5", "0", "1", ".", "5">>), PNaN,
      PStr(<<"2", "0", "2", "5", "0", "2", " ">>), PStr(<<"2", "0", "2", "5", "0", "3", ".", "0">>),
      PStr(<<"2", "5", "0", "0", "4">>), PStr(<<"2", "0", "2", "5", "0", "3", ".", "0", ".", "0">>),
      PStr(<<"2", "0", "2", "5", " ", ".", "0">>) }

PeriodoTables ==
    [has_periodo : BOOLEAN, periodo : SeqsUpTo(PeriodoValues, MaxPeriodos)]

EInit ==
    /\ fargs \in PeriodoTables
    /\ fret = NotReturned

EFrame == UNCHANGED <<wvars, rvars, mvars, nvars, hvars, cvars, gvars, fargs>>

\* an empty table or one without the column is returned as it is
EnsurePeriodoUntouched ==
    /\ fret = NotReturned
    /\ fargs.periodo = <<>> \/ ~fargs.has_periodo
    /\ fret' = [returned |-> TRUE, raised |-> FALSE, out |-> fargs.periodo,
                df |-> fargs.periodo, again |-> fargs.periodo]
    /\ EFrame

\* the Int64 cast of a numeric column raises
EnsurePeriodoRaises ==
    /\ fret = NotReturned
    /\ fargs.periodo # <<>> /\ fargs.has_periodo
    /\ CastRaises(fargs.periodo)
    /\ fret' = [returned |-> TRUE, raised |-> TRUE, out |-> <<>>,
                df |-> fargs.periodo, again |-> <<>>]
    /\ EFrame

\* out = ensure_periodo_str(df): the work is done on a copy, df keeps its
\* values; "again" is ensure_periodo_str(out)
EnsurePeriodo ==
    /\ fret = NotReturned
    /\ fargs.periodo # <<>> /\ fargs.has_periodo
    /\ ~CastRaises(fargs.periodo)
    /\ fret' = [returned |-> TRUE, raised |-> FALSE,
                out |-> ensure_periodo_str(fargs.periodo),
                df |-> fargs.periodo,
                again |-> ensure_periodo_str(ensure_periodo_str(fargs.periodo))]
    /\ EFrame

ENext == EnsurePeriodoUntouched \/ EnsurePeriodoRaises \/ EnsurePeriodo

InitPeriodo == EInit /\ CtxIdle /\ WIdle /\ RIdle /\ MIdle /\ NIdle /\ HIdle /\ CIdle /\ GIdle

SpecPeriodo == InitPeriodo /\ [][ENext]_vars

\* the value as text, stripped, without one trailing ".0", padded to six
\* characters when five are left
AsPeriodoText(v) ==
    LET t == strip(v.text)
        u == IF Len(t) >= 2 /\ t[Len(t) - 1] = "." /\ t[Len(t)] = "0"
             THEN SubSeq(t, 1, Len(t) - 2) ELSE t
    IN  IF Len(u) = 5 THEN <<"0">> \o u ELSE u

\* C25: on a non-empty table with the period column every output value is
\* the input as text, stripped, without a trailing ".0" and padded with one
\* "0" when its length is 5; the input table keeps its values; a second
\* application changes nothing.
C25_PeriodoText ==
    (fret.returned /\ fargs.has_periodo /\ fargs.periodo # <<>>) =>
        /\ ~fret.raised
        /\ Len(fret.out) = Len(fargs.periodo)
        /\ \A i \in DOMAIN fret.out :
              fret.out[i] = PStr(AsPeriodoText(fargs.periodo[i]))
        /\ fret.df = fargs.periodo
        /\ fret.again = fret.out

\* a column of period codes: integers, whole floats and texts made of a
\* code with blanks around it or one ".0" after it, and no NaN
IsPeriodoCode(v) ==
    /\ v.kind # "nan"
    /\ LET t == AsPeriodoText(v)
       IN  \A k \in DOMAIN t : t[k] \in {"0", "1", "2", "3", "4", "5", "6", "7", "8", "9"}

\* The same statement for columns of period codes.
C25_PeriodoCodes ==
    (/\ fret.returned
     /\ fargs.has_periodo
     /\ fargs.periodo # <<>>
     /\ \A i \in DOMAIN fargs.periodo : IsPeriodoCode(fargs.periodo[i])) =>
        /\ ~fret.raised
        /\ Len(fret.out) = Len(fargs.periodo)
        /\ \A i \in DOMAIN fret.out :
              fret.out[i] = PStr(AsPeriodoText(fargs.periodo[i]))
        /\ fret.df = fargs.periodo
        /\ fret.again = fret.out

\* two values of the unit test: the integer 202501 and the text "25004"
C25_PeriodoCodesWitness ==
    /\ fret.returned
    /\ fargs.has_periodo
    /\ fargs.periodo = <<PInt(<<"2", "0", "2", "5", "0", "1">>), PStr(<<"2", "5", "0", "0", "4">>)>>
    /\ fret.out = <<PStr(<<"2", "0", "2", "5", "0", "1">>), PStr(<<"0", "2", "5", "0", "0", "4">>)>>
    /\ fret.again = fret.out

----------------------------------------------------------------------------
(* The billing tables and their schema (SpecRun) *)

\* the columns the schema of ventas_mensual_mwh declares
SchemaColumns == {get_schema(ventas_mensual_mwh)[k].name :
                    k \in DOMAIN get_schema(ventas_mensual_mwh)}

\* the columns of the table run_facturacion hands to validate_and_write
SalesColumns == {ParsedSales("mwh").cols[k] : k \in DOMAIN ParsedSales("mwh").cols}

FacturacionCalled == \E i \in DOMAIN rcalls : rcalls[i] = "facturacion"

\* C26: the non-empty sales tables that run_facturacion passes to
\* validate_and_write hold every column their schema declares, so a
\* well-formed billing workbook never aborts a strict run on validation.
C26_StrictBillingRun ==
    (landing["facturacion"] = "ok" /\ FacturacionCalled) =>
        /\ SchemaColumns \subseteq SalesColumns
        /\ RUN_CONTEXT.strict => rerror # "Schema validation failed"

\* In a non-strict run the same workbook passes the stage and its four
\* tables are written.
C26_NonStrictBillingRun ==
    (landing["facturacion"] = "ok" /\ FacturacionCalled /\ ~RUN_CONTEXT.strict) =>
        /\ "facturacion" \in rdone
        /\ {"ventas_mensual_mwh.csv", "ventas_mensual_soles.csv",
            "ingresos_mensual.csv", "precio_medio_mensual.csv"} \subseteq mart

C26_NonStrictBillingRunWitness ==
    /\ landing["facturacion"] = "ok"
    /\ ~RUN_CONTEXT.strict
    /\ rpc = "exit0"
    /\ "ventas_mensual_mwh.csv" \in mart

----------------------------------------------------------------------------
(* Configuration reloads and the directories of a run (etl/config.py)     *)
(*                                                                         *)
(* A directory is written as it stands in the configuration; BASE_DIR / d  *)
(* is one-to-one in d.  The dicts under "paths" are objects: two names may *)
(* denote the same dict, and an update through one shows through both.     *)

PathKeys == {"input", "output", "reference", "logs", "reports"}

\* DEFAULT_CONFIG["paths"] as the module defines it
DEFAULT_PATHS ==
    [input |-> "data_landing", output |-> "data_mart",
     reference |-> "data_reference", logs |-> "logs", reports |-> "reports"]

\* d.get(k, default)
PathGet(d, k, default) == IF k \in DOMAIN d THEN d[k] ELSE default

\* d.update(items)
DictUpdate(d, items) ==
    [k \in DOMAIN d \cup DOMAIN items |-> IF k \in DOMAIN items THEN items[k] ELSE d[k]]

\* _deep_merge(dict(base["paths"]), override["paths"]): a new dict
_deep_merge(base, override) == DictUpdate(base, override)

\* Configuration files: none at the path, one without a "paths" section,
\* one with a "paths" section
NoFile == [exists |-> FALSE, has_paths |-> FALSE, paths |-> <<>>]
ConfigFile(has_paths, paths) == [exists |-> TRUE, has_paths |-> has_paths, paths |-> paths]

ConfigFiles ==
    { NoFile,
      ConfigFile(FALSE, <<>>),
      ConfigFile(TRUE, [output |-> "mart_yml"]),
      ConfigFile(TRUE, [logs |-> "logs_yml", reports |-> "reports_yml"]) }

\* paths_override: absent, the dict main() passes without --input/--output
\* (a falsy value is written ""), and dicts with directories
PathOverrides ==
    { None,
      Given([input |-> "", output |-> ""]),
      Given([input |-> "in_cli", output |-> "out_cli"]),
      Given([logs |-> "logs_cli", reports |-> "reports_cli"]) }

\* {k: v for k, v in paths_override.items() if v}
TruthyItems(items) ==
    LET keys == {k \in DOMAIN items : items[k] # ""}
    IN  [k \in keys |-> items[k]]

\* the file load_config reads: config_path, or BASE_DIR / "config.yml"
ConfigRead(config_path) == IF config_path.given THEN config_path.items ELSE gyml

\* load_config with an empty cache: base_cfg = dict(DEFAULT_CONFIG) copies
\* the top level only, so base_cfg["paths"] is DEFAULT_CONFIG["paths"]
\* itself unless _deep_merge replaces it by a merged copy
load_config(heap, file) ==
    IF file.exists /\ file.has_paths
    THEN [heap |-> [heap EXCEPT !.merged = _deep_merge(heap.defaults, file.paths)],
          paths |-> "merged"]
    ELSE [heap |-> heap, paths |-> "defaults"]

\* PATHS = {"input": BASE_DIR / CONFIG["paths"].get("input", "data_landing"), ...}
PathsOf(d) == [k \in PathKeys |-> PathGet(d, k, DEFAULT_PATHS[k])]

Artifacts == {"table", "metadata.json", "validation report", "etl_runs.jsonl", "etl.log"}

NothingWritten == [a \in Artifacts |-> "absent"]

\* The state once etl.config, the pipelines and utils_io are imported
GInit ==
    /\ gyml \in ConfigFiles
    /\ LET loaded == load_config([defaults |-> DEFAULT_PATHS, merged |-> <<>>], gyml)
           paths  == PathsOf(loaded.heap[loaded.paths])
       IN  /\ gheap = loaded.heap
           /\ gconfig = loaded.paths
           /\ PATHS = paths
           /\ pipeline_DATA_MART = paths["output"]
           /\ utils_io_REPORTS_DIR = paths["reports"]
           /\ utils_io_LOGS_DIR = paths["logs"]
           /\ LOG_FILE = paths["logs"]
    /\ gartifacts = NothingWritten
    /\ fargs = <<>>
    /\ fret = NotReturned

GOthers == UNCHANGED <<wvars, rvars, mvars, nvars, hvars, cvars>>

GWrite(artifact, dir) ==
    /\ gartifacts' = [gartifacts EXCEPT ![artifact] = dir]
    /\ UNCHANGED <<gyml, gheap, gconfig, PATHS, pipeline_DATA_MART,
                   utils_io_REPORTS_DIR, utils_io_LOGS_DIR, LOG_FILE, fargs, fret>>
    /\ GOthers

\* apply_runtime_overrides(config_path, paths_override), as main() calls it
\* at the start of a run
apply_runtime_overrides ==
    \E config_path \in {None} \cup {Given(f) : f \in ConfigFiles},
       paths_override \in PathOverrides :
        LET loaded == load_config(gheap, ConfigRead(config_path))
            ref    == loaded.paths
            items  == IF paths_override.given THEN TruthyItems(paths_override.items) ELSE <<>>
            heap   == IF paths_override.given
                      THEN [loaded.heap EXCEPT ![ref] = DictUpdate(loaded.heap[ref], items)]
                      ELSE loaded.heap
        IN  /\ gheap' = heap
            /\ gconfig' = ref
            /\ PATHS' = PathsOf(heap[ref])
            /\ pipeline_DATA_MART' = PathsOf(heap[ref])["output"]
            /\ fargs' = [config_path |-> config_path, paths_override |-> paths_override]
            /\ fret' = [returned |-> TRUE]
            /\ gartifacts' = NothingWritten
            /\ UNCHANGED <<gyml, utils_io_REPORTS_DIR, utils_io_LOGS_DIR, LOG_FILE>>
            /\ GOthers

\* a pipeline writes a table: safe_write_csv(df, DATA_MART / OUTPUT_FILES[...])
WriteTable == GWrite("table", pipeline_DATA_MART)

\* write_metadata imports DATA_MART from etl.config when it is called
WriteMetadata == GWrite("metadata.json", PATHS["output"])

\* _write_validation_report: REPORTS_DIR / "validation_<run>_<dataset>.json"
WriteValidationReport == GWrite("validation report", utils_io_REPORTS_DIR)

\* record_etl_run: ensure_runs_log() is LOGS_DIR / "etl_runs.jsonl"
RecordEtlRun == GWrite("etl_runs.jsonl", utils_io_LOGS_DIR)

\* setup_logging(config.LOG_FILE)
SetupLogging == GWrite("etl.log", LOG_FILE)

GNext ==
    \/ apply_runtime_overrides
    \/ WriteTable
    \/ WriteMetadata
    \/ WriteValidationReport
    \/ RecordEtlRun
    \/ SetupLogging

InitConfig == GInit /\ CtxIdle /\ WIdle /\ RIdle /\ MIdle /\ NIdle /\ HIdle /\ CIdle

SpecConfig == InitConfig /\ [][GNext]_vars

\* the last reload was given no directory: no paths_override, or falsy values only
NoOverrides ==
    \/ ~fargs.paths_override.given
    \/ DOMAIN TruthyItems(fargs.paths_override.items) = {}

\* the last reload found no configuration file
NoConfigFile == ~ConfigRead(fargs.config_path).exists

\* C27: no sequence of reloads changes DEFAULT_CONFIG, and a reload with no
\* overrides and no configuration file leaves PATHS (hence DATA_LANDING and
\* DATA_MART) at the default directories.
C27_DefaultsImmutable ==
    /\ gheap.defaults = DEFAULT_PATHS
    /\ (fret.returned /\ NoOverrides /\ NoConfigFile) => PATHS = DEFAULT_PATHS

\* After a reload PATHS is what CONFIG["paths"] holds, and every directory
\* the reload was given is in effect.
C27_OverridesInEffect ==
    fret.returned =>
        /\ PATHS = PathsOf(gheap[gconfig])
        /\ fargs.paths_override.given =>
              \A k \in DOMAIN TruthyItems(fargs.paths_override.items) :
                  PATHS[k] = fargs.paths_override.items[k]

C27_OverridesInEffectWitness ==
    /\ fret.returned
    /\ fargs.paths_override = Given([input |-> "in_cli", output |-> "out_cli"])
    /\ PATHS["output"] = "out_cli"
    /\ PATHS["input"] = "in_cli"

\* the directory the configuration names for an artifact
ConfiguredDir(artifact) ==
    CASE artifact \in {"table", "metadata.json"} -> PATHS["output"]
      [] artifact = "validation report" -> PATHS["reports"]
      [] OTHER -> PATHS["logs"]

\* C28: after a reload every artifact of the run is written under the
\* directory the configuration names at that moment: tables under output,
\* validation reports under reports, etl_runs.jsonl under logs.
C28_WritesFollowOverrides ==
    fret.returned =>
        \A a \in Artifacts : gartifacts[a] \in {"absent", ConfiguredDir(a)}

\* The tables and metadata.json are written under the directory in effect.
C28_TablesFollowOverrides ==
    fret.returned =>
        \A a \in {"table", "metadata.json"} : gartifacts[a] \in {"absent", PATHS["output"]}

C28_TablesFollowOverridesWitness ==
    /\ fret.returned
    /\ PATHS["output"] = "out_cli"
    /\ gartifacts["table"] = "out_cli"
    /\ gartifacts["metadata.json"] = "out_cli"

----------------------------------------------------------------------------
(* Keys of a partition across runs (SpecMerge) *)

\* C29: after a file is merged the keys of the partition on disk are the
\* keys it held before together with the keys parsed from the file, and
\* merging the same file a second time leaves the partition as it was.
C29_MergeKeepsKeys ==
    /\ mpc \in {"merged", "remerged"} =>
          KeyTexts(read_csv15(mdisk)) = KeyTexts(mprev) \cup KeyTexts(mpart)
    /\ mpc = "remerged" => mdisk = to_csv15(mprev)

\* the partition the re-run finds has one row per key and a unit column
\* that is read back as texts
PlainPartition ==
    /\ Cardinality(KeyTexts(mprev)) = Len(mprev)
    /\ \A i \in DOMAIN mprev : mprev[i].unidad.t = "str"

\* The half of it about the keys, and the re-run on such a partition.
C29_KeysUnion ==
    /\ mpc \in {"merged", "remerged"} =>
          KeyTexts(read_csv15(mdisk)) = KeyTexts(mprev) \cup KeyTexts(mpart)
    /\ (mpc = "remerged" /\ PlainPartition) => mdisk = to_csv15(mprev)

C29_KeysUnionWitness ==
    /\ mpc = "remerged"
    /\ PlainPartition
    /\ Len(mprev) = 3
    /\ Cardinality(KeyTexts(mpart)) = 2
    /\ mdisk = to_csv15(mprev)

----------------------------------------------------------------------------
(* Nulls under a range check (SpecWrite) *)

\* SCHEMAS["represas_diario"]: the column pct_llenado
pct_llenado == Column("pct_llenado", "float64", TRUE, <<in_range(0, 150, TRUE)>>)

\* a frame with a null and a value inside the range in that column
PctFrame == Table(<<"pct_llenado">>, <<[pct_llenado |-> Null], [pct_llenado |-> Num(50)]>>)

NullableColumns(schema) == {schema[k].name : k \in {j \in DOMAIN schema : schema[j].nullable}}

\* the rows of the validated frame that hold a null in a column
NullCells(column) ==
    {i \in DOMAIN wjob.df.rows :
        column \in DOMAIN wjob.df.rows[i] /\ wjob.df.rows[i][column].t = "null"}

\* C30: a null in a column declared nullable is never among the failure
\* cases, range check or not: under Check.ge in the validated table, under
\* Check.in_range in the column pct_llenado.
C30_NullsNotReported ==
    /\ \A k \in DOMAIN wjob.failures :
          wjob.failures[k].column \in NullableColumns(get_schema(wjob.dataset)) =>
              wjob.failures[k].index \cap NullCells(wjob.failures[k].column) = {}
    /\ wjob.failures # <<>> => ColumnFailures(pct_llenado, PctFrame) = <<>>

\* A nullable column never fails for holding nulls as such (no non_null
\* failure), and a number is among its failure cases only when it is
\* outside the range.
C30_NumbersOutsideRange ==
    \A k \in DOMAIN wjob.failures :
        wjob.failures[k].column \in NullableColumns(get_schema(wjob.dataset)) =>
            /\ wjob.failures[k].check # "non_null"
            /\ \A i \in wjob.failures[k].index :
                  wjob.df.rows[i][wjob.failures[k].column].t = "num" =>
                      wjob.df.rows[i][wjob.failures[k].column].n < 0

C30_NumbersOutsideRangeWitness ==
    /\ wpc = "report"
    /\ wjob.df.cols = VentasCols
    /\ \E k \in DOMAIN wjob.failures :
          /\ wjob.failures[k].column = "mwh"
          /\ \E i \in wjob.failures[k].index : wjob.df.rows[i]["mwh"] = Num(-5)
    /\ \E i \in DOMAIN wjob.df.rows : wjob.df.rows[i]["anio"] = Str("x")

=============================================================================
